---- MODULE Spec2Model ----
(***************************************************************************)
(* State-machine model of the gdb storage engine (package storageengine):  *)
(* fixed-size pages in one backing file, table schemas and rows encoded    *)
(* into page bytes, an in-memory row index per table, recovery by a        *)
(* two-pass scan of the file, and the predicate query layer.               *)
(*                                                                         *)
(* Representation.  A Go string or []byte is a sequence of byte values.    *)
(* A page is a sequence of PageSize bytes; Go offset o is element o+1.     *)
(* A Go interface{} value is a record [kind, s]: kind is the dynamic type  *)
(* ("nil", "int", ..., "float64", "string", "bool") and s its bytes: the   *)
(* 8-byte little-endian two's complement of an integer, the 8-byte         *)
(* little-endian IEEE-754 double of a float, the bytes of a string, one    *)
(* byte 0/1 for a bool.                                                    *)
(***************************************************************************)
EXTENDS Integers, Sequences, FiniteSets, TLC

(***************************************************************************)
(* Bounds of the model.                                                    *)
(***************************************************************************)
\* the pageSize every NewDatabase call is given
PageSize == 48
\* rows inserted in one run, all tables together
MaxRows == 3
\* the same for the runs that exercise the query layer
MaxQueryRows == 2
\* goroutines calling into one Database at the same time
NumGoroutines == 2
\* highest table id a CreateTable whose page write fails may consume
MaxFailedCreates == 2
\* pages of the files handed to NewDatabase as found on disk
MaxFilePages == 3

(***************************************************************************)
(* Bytes, slices and little-endian integers.                               *)
(***************************************************************************)
Zeros(n) == [i \in 1..n |-> 0]

\* uint16 arithmetic
U16Add(a, b) == (a + b) % 65536

\* data[a:b] is legal in Go iff 0 <= a <= b <= cap(data)
SliceOK(data, a, b) == a >= 0 /\ a <= b /\ b <= Len(data)

Slice(data, a, b) == [i \in 1..(b - a) |-> data[a + i]]

\* copy(data[off:off+len(bytes)], bytes)
PutBytes(data, off, bytes) ==
    [i \in 1..Len(data) |->
        IF i > off /\ i <= off + Len(bytes) THEN bytes[i - off] ELSE data[i]]

RECURSIVE LEBytes(_, _)
\* binary.LittleEndian.PutUintNN: the w low-order bytes of n, lowest first
LEBytes(n, w) == IF w = 0 THEN <<>> ELSE <<n % 256>> \o LEBytes(n \div 256, w - 1)

\* binary.LittleEndian.Uint16(data[off:off+2])
GetU16(data, off) == data[off + 1] + 256 * data[off + 2]

IsZeroBytes(bs) == \A i \in 1..Len(bs) : bs[i] = 0

RECURSIVE U32Inc(_)
\* v + 1 in uint32 arithmetic, v and the result as 4 little-endian bytes:
\* 0xFFFFFFFF + 1 = 0
U32Inc(v) ==
    IF v = <<>> THEN <<>>
    ELSE IF v[1] < 255 THEN <<v[1] + 1>> \o Tail(v)
    ELSE <<0>> \o U32Inc(Tail(v))

(***************************************************************************)
(* 64-bit words as sequences of 64 bits, most significant first.           *)
(***************************************************************************)
\* the word whose little-endian bytes are bs (8 bytes)
WordBits(bs) == [i \in 1..64 |-> (bs[8 - ((i - 1) \div 8)] \div (2 ^ (7 - ((i - 1) % 8)))) % 2]

BitsByte(bits, k) ==
    bits[8 * k + 1] * 128 + bits[8 * k + 2] * 64 + bits[8 * k + 3] * 32 + bits[8 * k + 4] * 16
    + bits[8 * k + 5] * 8 + bits[8 * k + 6] * 4 + bits[8 * k + 7] * 2 + bits[8 * k + 8]

\* little-endian bytes of a 64-bit word
WordBytes(bits) == [i \in 1..8 |-> BitsByte(bits, 8 - i)]

RECURSIVE BitsValue(_)
\* value of a short bit string (callers keep it below 2^30)
BitsValue(bits) ==
    IF Len(bits) = 0 THEN 0
    ELSE 2 * BitsValue(SubSeq(bits, 1, Len(bits) - 1)) + bits[Len(bits)]

\* the w-bit representation of n, most significant first
ValueBits(n, w) == [i \in 1..w |-> (n \div (2 ^ (w - i))) % 2]

FirstOne(bits) ==
    IF \E i \in 1..Len(bits) : bits[i] = 1
    THEN CHOOSE i \in 1..Len(bits) : bits[i] = 1 /\ \A j \in 1..(i - 1) : bits[j] = 0
    ELSE 0

\* bits + 1 modulo 2^Len(bits)
BitsInc(bits) ==
    [i \in 1..Len(bits) |->
        IF \A j \in (i + 1)..Len(bits) : bits[j] = 1 THEN 1 - bits[i] ELSE bits[i]]

BitsNot(bits) == [i \in 1..Len(bits) |-> 1 - bits[i]]

\* lexicographic order on equal-length bit or byte strings read most significant first
RECURSIVE SeqLess(_, _)
SeqLess(a, b) ==
    IF Len(a) = 0 \/ Len(b) = 0 THEN Len(a) < Len(b)
    ELSE IF a[1] # b[1] THEN a[1] < b[1]
    ELSE SeqLess(Tail(a), Tail(b))

\* a < b for uint32 values of 4 little-endian bytes
U32Less(a, b) == SeqLess(<<a[4], a[3], a[2], a[1]>>, <<b[4], b[3], b[2], b[1]>>)

(***************************************************************************)
(* int64 and float64 values and the Go conversions between them.           *)
(***************************************************************************)
\* the int64 n as 8 little-endian bytes (two's complement)
Int64Bytes(n) == LEBytes(n, 8)

\* magnitude word and sign of the int64 with bytes bs
Int64Neg(bs) == bs[8] >= 128
Int64Mag(bs) == IF Int64Neg(bs) THEN BitsInc(BitsNot(WordBits(bs))) ELSE WordBits(bs)

\* the float64 (-1)^sign * 1.frac * 2^e for a magnitude word with its first
\* one at position p, rounded to nearest even as the hardware conversion does
MagToFloatBits(sign, mag) ==
    LET p == FirstOne(mag)
    IN  IF p = 0 THEN <<sign>> \o Zeros(63)
        ELSE LET rest  == SubSeq(mag, p + 1, 64)
                 exact == Len(rest) <= 52
                 frac  == IF exact THEN rest \o Zeros(52 - Len(rest)) ELSE SubSeq(rest, 1, 52)
                 guard == IF exact THEN 0 ELSE rest[53]
                 stick == IF exact THEN FALSE
                          ELSE \E j \in 54..Len(rest) : rest[j] = 1
                 up    == guard = 1 /\ (stick \/ frac[52] = 1)
                 carry == up /\ \A j \in 1..52 : frac[j] = 1
                 fr    == IF up THEN BitsInc(frac) ELSE frac
                 ex    == (64 - p) + 1023 + (IF carry THEN 1 ELSE 0)
             IN  <<sign>> \o ValueBits(ex, 11) \o fr

\* float64(v) for an int64 v
IntToFloat(bs) == WordBytes(MagToFloatBits(IF Int64Neg(bs) THEN 1 ELSE 0, Int64Mag(bs)))

\* float64(v) for a uint64 v
UintToFloat(bs) == WordBytes(MagToFloatBits(0, WordBits(bs)))

\* sign bit, biased exponent and fraction of the float64 with little-endian bytes fb
FloatSign(fb) == fb[8] \div 128
FloatExp(fb) == (fb[8] % 128) * 16 + (fb[7] \div 16)
FloatFrac(fb) == SubSeq(WordBits(fb), 13, 64)
FloatFracIsZero(fb) == fb[7] % 16 = 0 /\ \A i \in 1..6 : fb[i] = 0
FloatIsNaN(fb) == FloatExp(fb) = 2047 /\ ~FloatFracIsZero(fb)
FloatIsZero(fb) == fb[8] % 128 = 0 /\ \A i \in 1..7 : fb[i] = 0

\* f == math.Trunc(f)
FloatIsIntegral(fb) ==
    LET e == FloatExp(fb) - 1023
    IN  IF FloatIsNaN(fb) THEN FALSE
        ELSE IF FloatIsZero(fb) THEN TRUE
        ELSE IF e < 0 THEN FALSE
        ELSE IF e >= 52 THEN TRUE
        ELSE \A j \in (e + 1)..52 : FloatFrac(fb)[j] = 0

\* the builds of the program: the result of int64(f) for an f that is no
\* int64 is left to the implementation
Builds == {"amd64", "arm64"}

\* int64(f) for a float64 f: truncation toward zero when the truncated value
\* is an int64.  Otherwise (NaN, an infinity, a value below -2^63 or not
\* below 2^63) amd64 gives -2^63, arm64 gives 0 for NaN and the nearest
\* int64 for the others.
FloatToInt(fb, build) ==
    LET e    == FloatExp(fb) - 1023
        fits == e < 63 \/ (e = 63 /\ FloatSign(fb) = 1 /\ FloatFracIsZero(fb))
        sig  == <<1>> \o FloatFrac(fb)
        mag  == IF FloatIsZero(fb) \/ e < 0 THEN Zeros(64)
                ELSE IF e <= 52 THEN Zeros(63 - e) \o SubSeq(sig, 1, e + 1)
                ELSE Zeros(63 - e) \o sig \o Zeros(e - 52)
        minInt64 == <<0, 0, 0, 0, 0, 0, 0, 128>>
        maxInt64 == <<255, 255, 255, 255, 255, 255, 255, 127>>
    IN  IF fits THEN WordBytes(IF FloatSign(fb) = 1 THEN BitsInc(BitsNot(mag)) ELSE mag)
        ELSE IF build = "amd64" THEN minInt64
        ELSE IF FloatIsNaN(fb) THEN Zeros(8)
        ELSE IF FloatSign(fb) = 1 THEN minInt64
        ELSE maxInt64

\* the bytes of |f|, most significant first: they order as the magnitudes do
FloatMag(fb) == <<fb[8] % 128, fb[7], fb[6], fb[5], fb[4], fb[3], fb[2], fb[1]>>

MagLess(ma, mb) == \E i \in 1..8 : ma[i] < mb[i] /\ \A j \in 1..(i - 1) : ma[j] = mb[j]

\* a < b on float64 values
FloatLess(a, b) ==
    IF FloatIsNaN(a) \/ FloatIsNaN(b) THEN FALSE
    ELSE IF FloatIsZero(a) /\ FloatIsZero(b) THEN FALSE
    ELSE IF FloatSign(a) # FloatSign(b) THEN FloatSign(a) = 1
    ELSE IF FloatSign(a) = 0 THEN MagLess(FloatMag(a), FloatMag(b))
    ELSE MagLess(FloatMag(b), FloatMag(a))

\* the float64 h/2 for a small integer h (used to write float inputs)
HalfFloat(h) ==
    LET m == IF h < 0 THEN 0 - h ELSE h
        p == FirstOne(ValueBits(m, 30))
    IN  IF h = 0 THEN Zeros(8)
        ELSE WordBytes(<<IF h < 0 THEN 1 ELSE 0>> \o ValueBits((30 - p) - 1 + 1023, 11)
                       \o SubSeq(ValueBits(m, 30), p + 1, 30) \o Zeros(52 - (30 - p)))

(***************************************************************************)
(* Go values.                                                              *)
(***************************************************************************)
IntKinds == {"int", "int8", "int16", "int32", "int64",
             "uint", "uint8", "uint16", "uint32", "uint64"}
FloatKinds == {"float32", "float64"}

Nil == [kind |-> "nil", s |-> <<>>]
\* an integer of kind k, n >= 0: s holds the 64 bits of the value, which are
\* those of the int64 it converts to
IntV(k, n) == [kind |-> k, s |-> Int64Bytes(n)]
\* float64(v) for an integer v of any kind: the unsigned kinds convert as
\* unsigned numbers
IntegerToFloat(v) ==
    IF v.kind \in {"uint", "uint8", "uint16", "uint32", "uint64"} THEN UintToFloat(v.s)
    ELSE IntToFloat(v.s)
\* the float of kind k with value h/2
FloatV(k, h) == [kind |-> k, s |-> HalfFloat(h)]
StrV(str) == [kind |-> "string", s |-> str]
BoolV(b) == [kind |-> "bool", s |-> <<IF b THEN 1 ELSE 0>>]

\* column types and page types
TInteger == 0
Tstring == 1
Tfloat == 2
Tbool == 3
PTFree == 0
PTTable == 1
PTData == 2
PTIndex == 3

\* size of the page header; payload and free offset start here
HeaderSize == 17

(***************************************************************************)
(* Validation of a value map against a schema.                             *)
(***************************************************************************)
\* "ok", "TypeMismatch", or "panic" (the type assertion v.(float64) on a float32)
validateValueType(value, colType) ==
    IF value.kind = "nil" THEN "ok"
    ELSE IF colType = TInteger THEN
        IF value.kind \in IntKinds THEN "ok"
        ELSE IF value.kind = "float32" THEN "panic"
        ELSE IF value.kind = "float64" THEN
            IF FloatIsIntegral(value.s) THEN "ok" ELSE "TypeMismatch"
        ELSE "TypeMismatch"
    ELSE IF colType = Tfloat THEN
        IF value.kind \in IntKinds \cup FloatKinds THEN "ok" ELSE "TypeMismatch"
    ELSE IF colType = Tstring THEN
        IF value.kind = "string" THEN "ok" ELSE "TypeMismatch"
    ELSE IF colType = Tbool THEN
        IF value.kind = "bool" THEN "ok" ELSE "TypeMismatch"
    ELSE "TypeMismatch"

RECURSIVE validateColumns(_, _, _)
\* the first loop of validateRowData, from column i on
validateColumns(cols, values, i) ==
    IF i > Len(cols) THEN "ok"
    ELSE LET col    == cols[i]
             exists == col.Name \in DOMAIN values
         IN  IF ~exists /\ col.NotNull THEN "MissingRequiredColumn"
             ELSE IF exists /\ validateValueType(values[col.Name], col.Type) # "ok"
                  THEN validateValueType(values[col.Name], col.Type)
             ELSE validateColumns(cols, values, i + 1)

validateRowData(table, values) ==
    LET first == validateColumns(table.Columns, values, 1)
    IN  IF first # "ok" THEN first
        ELSE IF \E name \in DOMAIN values :
                   \A i \in 1..Len(table.Columns) : table.Columns[i].Name # name
             THEN "UnknownColumn"
        ELSE "ok"

(***************************************************************************)
(* Row codec.                                                              *)
(***************************************************************************)
IsNullIn(values, name) == name \notin DOMAIN values \/ values[name].kind = "nil"

\* NullBitmapByte numbering the bits of a byte from the high end
NullBitmapByte_HighBitFirst(cols, values, b) ==
    LET bit(j) == IF 8 * b + j < Len(cols) /\ IsNullIn(values, cols[8 * b + j + 1].Name)
                  THEN 2 ^ (7 - j) ELSE 0
    IN  bit(0) + bit(1) + bit(2) + bit(3) + bit(4) + bit(5) + bit(6) + bit(7)

\* byte b of the null bitmap: bit i%8 of byte i/8 is set iff column i (0-based) is null
NullBitmapByte(cols, values, b) ==
    LET bit(j) == IF 8 * b + j < Len(cols) /\ IsNullIn(values, cols[8 * b + j + 1].Name)
                  THEN 2 ^ j ELSE 0
    IN  bit(0) + bit(1) + bit(2) + bit(3) + bit(4) + bit(5) + bit(6) + bit(7)

NullBitmap(cols, values) ==
    [b \in 1..((Len(cols) + 7) \div 8) |-> NullBitmapByte(cols, values, b - 1)]

\* the encoding of one non-null field: [err, bytes]
serializeField(col, val, build) ==
    IF col.Type = TInteger THEN
        IF val.kind \in IntKinds THEN [err |-> "ok", bytes |-> val.s]
        ELSE IF val.kind = "float64" THEN [err |-> "ok", bytes |-> FloatToInt(val.s, build)]
        ELSE [err |-> "SerializationError", bytes |-> <<>>]
    ELSE IF col.Type = Tfloat THEN
        IF val.kind \in FloatKinds THEN [err |-> "ok", bytes |-> val.s]
        ELSE IF val.kind \in IntKinds THEN [err |-> "ok", bytes |-> IntegerToFloat(val)]
        ELSE [err |-> "SerializationError", bytes |-> <<>>]
    ELSE IF col.Type = Tstring THEN
        IF val.kind = "string"
        THEN [err |-> "ok", bytes |-> LEBytes(Len(val.s) % 65536, 2) \o val.s]
        ELSE [err |-> "SerializationError", bytes |-> <<>>]
    ELSE IF col.Type = Tbool THEN
        IF val.kind = "bool" THEN [err |-> "ok", bytes |-> val.s]
        ELSE [err |-> "SerializationError", bytes |-> <<>>]
    ELSE [err |-> "ok", bytes |-> <<>>]

RECURSIVE serializeFields(_, _, _, _)
serializeFields(cols, values, i, build) ==
    LET cons(f, rest) ==
            IF f.err # "ok" THEN f
            ELSE IF rest.err # "ok" THEN rest
            ELSE [err |-> "ok", bytes |-> f.bytes \o rest.bytes]
    IN  IF i > Len(cols) THEN [err |-> "ok", bytes |-> <<>>]
        ELSE IF IsNullIn(values, cols[i].Name) THEN serializeFields(cols, values, i + 1, build)
        ELSE cons(serializeField(cols[i], values[cols[i].Name], build),
                  serializeFields(cols, values, i + 1, build))

\* [err, bytes]: null bitmap followed by the non-null fields in schema order
serializeRow(values, table, build) ==
    LET framed(fields) ==
            IF fields.err # "ok" THEN fields
            ELSE [err |-> "ok", bytes |-> NullBitmap(table.Columns, values) \o fields.bytes]
    IN  framed(serializeFields(table.Columns, values, 1, build))

RECURSIVE deserializeFields(_, _, _, _, _, _)
\* The loop of deserializeRow from column i on.  data is the slice
\* page[start : start+length]; its capacity reaches the end of the page, so a
\* slice expression may read past length, an index expression may not.
deserializeFields(page, start, length, cols, i, offset) ==
    IF i > Len(cols) THEN [err |-> "ok", values |-> <<>>]
    ELSE
    LET cap       == Len(page) - start
        byteIndex == (i - 1) \div 8
        bitIndex  == (i - 1) % 8
        col       == cols[i]
        at(o)     == page[start + o + 1]
        cons(val, rest) ==
            IF rest.err # "ok" THEN rest
            ELSE [err |-> "ok", values |-> <<[name |-> col.Name, val |-> val]>> \o rest.values]
        bind(val, next) ==
            cons(val, deserializeFields(page, start, length, cols, i + 1, next))
    IN  IF byteIndex >= length THEN [err |-> "panic", values |-> <<>>]
        ELSE IF (at(byteIndex) \div (2 ^ bitIndex)) % 2 = 1
             THEN deserializeFields(page, start, length, cols, i + 1, offset)
        ELSE IF col.Type = TInteger \/ col.Type = Tfloat THEN
            IF offset + 8 > cap THEN [err |-> "panic", values |-> <<>>]
            ELSE bind([kind |-> IF col.Type = TInteger THEN "int64" ELSE "float64",
                       s |-> Slice(page, start + offset, start + offset + 8)], offset + 8)
        ELSE IF col.Type = Tstring THEN
            IF offset + 2 > cap THEN [err |-> "panic", values |-> <<>>]
            ELSE LET strLen == GetU16(page, start + offset)
                 IN  IF offset + 2 + strLen > cap THEN [err |-> "panic", values |-> <<>>]
                     ELSE bind(StrV(Slice(page, start + offset + 2, start + offset + 2 + strLen)),
                               offset + 2 + strLen)
        ELSE IF col.Type = Tbool THEN
            IF offset >= length THEN [err |-> "panic", values |-> <<>>]
            ELSE bind(BoolV(at(offset) # 0), offset + 1)
        ELSE deserializeFields(page, start, length, cols, i + 1, offset)

\* the map built from a list of (name, value) assignments, later ones winning
ValuesOf(assigns) ==
    [name \in {assigns[k].name : k \in 1..Len(assigns)} |->
        LET last == CHOOSE k \in 1..Len(assigns) :
                        assigns[k].name = name
                        /\ \A j \in (k + 1)..Len(assigns) : assigns[j].name # name
        IN  assigns[last].val]

\* [err, values] decoded from page[start : start+length] under the table's schema
deserializeRow(page, start, length, table) ==
    LET built(r) ==
            IF r.err # "ok" THEN [err |-> r.err, values |-> <<>>]
            ELSE [err |-> "ok", values |-> ValuesOf(r.values)]
    IN  built(deserializeFields(page, start, length, table.Columns, 1,
                                (Len(table.Columns) + 7) \div 8))

(***************************************************************************)
(* Schema codec.                                                           *)
(***************************************************************************)
\* a name as serializeTable writes it: nameLen := uint16(len(name)) is
\* written and counted, and copy takes the first nameLen bytes of the name
NameBytes(name) ==
    LEBytes(Len(name) % 65536, 2) \o SubSeq(name, 1, Len(name) % 65536)

RECURSIVE serializeColumns(_, _)
serializeColumns(cols, i) ==
    IF i > Len(cols) THEN <<>>
    ELSE NameBytes(cols[i].Name)
         \o <<cols[i].Type, IF cols[i].NotNull THEN 1 ELSE 0>>
         \o serializeColumns(cols, i + 1)

\* TablePayload writing the primary key before the column count
TablePayload_PKBeforeCount(table) ==
    NameBytes(table.Name)
    \o NameBytes(table.PK)
    \o LEBytes(Len(table.Columns) % 65536, 2)
    \o serializeColumns(table.Columns, 1)

\* the bytes serializeTable writes from offset 17 on
TablePayload(table) ==
    NameBytes(table.Name)
    \o LEBytes(Len(table.Columns) % 65536, 2)
    \o NameBytes(table.PK)
    \o serializeColumns(table.Columns, 1)

\* [err, data].  On a page of less than 65536 bytes (every page of the
\* model) the 16-bit offset cannot wrap around before a slice or an index is
\* out of range, and every write of serializeTable ends at or before the
\* final offset: some write is out of range (a panic) iff the final offset
\* is past the end of the page; the function has no error return.
serializeTable(table, data) ==
    LET payload == TablePayload(table)
        offset  == HeaderSize + Len(payload)
    IN  IF offset > Len(data) THEN [err |-> "panic", data |-> data]
        ELSE [err |-> "ok",
              data |-> PutBytes(PutBytes(data, HeaderSize, payload), 15, LEBytes(offset, 2))]

RECURSIVE deserializeColumns(_, _, _)
\* the column loop of deserializeTable with n columns left to read
deserializeColumns(data, n, offset) ==
    IF n = 0 THEN [err |-> "ok", cols |-> <<>>]
    ELSE IF ~SliceOK(data, offset, U16Add(offset, 2)) THEN [err |-> "panic", cols |-> <<>>]
    ELSE LET o1 == U16Add(offset, 2)
             o2 == U16Add(o1, GetU16(data, offset))
             o3 == U16Add(o2, 1)
             cons(col, rest) ==
                 IF rest.err # "ok" THEN rest
                 ELSE [err |-> "ok", cols |-> <<col>> \o rest.cols]
         IN  IF ~SliceOK(data, o1, o2) \/ o2 >= Len(data) \/ o3 >= Len(data)
             THEN [err |-> "panic", cols |-> <<>>]
             ELSE cons([Name |-> Slice(data, o1, o2), Type |-> data[o2 + 1],
                        NotNull |-> data[o3 + 1] # 0],
                       deserializeColumns(data, n - 1, U16Add(o3, 1)))

\* the uint32 at data[1:5], as its 4 little-endian bytes
GetTableID(data) == Slice(data, 1, 5)

NoTable == [ID |-> Zeros(4), Name |-> <<>>, Columns |-> <<>>, PK |-> <<>>,
            FirstPageID |-> 0, LastPageID |-> 0]

\* [err, table] read back from a table page
deserializeTable(data) ==
    LET bad == [err |-> "panic", table |-> NoTable]
        o0  == HeaderSize
    IN  IF ~SliceOK(data, o0, o0 + 2) THEN bad
        ELSE
        LET o1 == U16Add(o0, 2)
            o2 == U16Add(o1, GetU16(data, o0))
        IN  IF ~SliceOK(data, o1, o2) \/ ~SliceOK(data, o2, U16Add(o2, 2)) THEN bad
            ELSE
            LET colCount == GetU16(data, o2)
                o3 == U16Add(o2, 2)
            IN  IF ~SliceOK(data, o3, U16Add(o3, 2)) THEN bad
                ELSE
                LET o4 == U16Add(o3, 2)
                    o5 == U16Add(o4, GetU16(data, o3))
                IN  IF ~SliceOK(data, o4, o5) THEN bad
                    ELSE LET built(cs) ==
                                 IF cs.err # "ok" THEN bad
                                 ELSE [err |-> "ok",
                                       table |-> [ID |-> GetTableID(data),
                                                  Name |-> Slice(data, o1, o2),
                                                  Columns |-> cs.cols,
                                                  PK |-> Slice(data, o4, o5),
                                                  FirstPageID |-> 0, LastPageID |-> 0]]
                         IN  built(deserializeColumns(data, colCount, o5))

(***************************************************************************)
(* Page store: the file is the sequence of its pages, page id p at p+1.    *)
(***************************************************************************)
\* [err, data]: ReadAt fails with EOF when the page lies past the end of the file
readPage(f, pageID) ==
    IF pageID < Len(f) THEN [err |-> "ok", data |-> f[pageID + 1]]
    ELSE [err |-> "IOError", data |-> <<>>]

\* WriteAt past the end of the file leaves a hole that reads as zero bytes
writePage(f, pageID, data) ==
    IF pageID < Len(f) THEN [f EXCEPT ![pageID + 1] = data]
    ELSE f \o [i \in 1..(pageID - Len(f)) |-> Zeros(Len(data))] \o <<data>>

\* NewPageData leaving the free offset of the header at zero
NewPageData_NoFreeOffset(ptype, tableID) ==
    PutBytes(PutBytes(Zeros(PageSize), 0, <<ptype>>), 1, tableID)

\* a fresh page buffer with the 17-byte header of an empty page
NewPageData(ptype, tableID) ==
    PutBytes(PutBytes(PutBytes(Zeros(PageSize), 0, <<ptype>>), 1, tableID),
             15, LEBytes(HeaderSize, 2))

\* hasEnoughSpace without the margin of 4 bytes
hasEnoughSpace_NoMargin(data, neededSpace) == GetU16(data, 15) + neededSpace <= PageSize

hasEnoughSpace(data, neededSpace) == GetU16(data, 15) + neededSpace + 4 <= PageSize

(***************************************************************************)
(* Page placer.                                                            *)
(***************************************************************************)
\* addRowToPage advancing the free offset by the row bytes only, not by the prefix
addRowToPage_ShortAdvance(f, pageID, data, rowData, writeFails) ==
    LET rowCount   == GetU16(data, 5)
        freeOffset == GetU16(data, 15)
        lo         == U16Add(freeOffset, 2)
        hi         == U16Add(lo, Len(rowData) % 65536)
        bad        == [err |-> "panic", file |-> f, pageID |-> 0, offset |-> 0]
    IN  IF ~SliceOK(data, freeOffset, lo) \/ ~SliceOK(data, lo, hi) THEN bad
        ELSE
        LET d1 == PutBytes(data, freeOffset, LEBytes(Len(rowData) % 65536, 2))
            d2 == PutBytes(d1, lo, SubSeq(rowData, 1, hi - lo))
            d3 == PutBytes(d2, 5, LEBytes(U16Add(rowCount, 1), 2))
            d4 == PutBytes(d3, 15, LEBytes(U16Add(freeOffset, Len(rowData) % 65536), 2))
        IN  IF writeFails
            THEN [err |-> "IOError", file |-> f, pageID |-> 0, offset |-> 0]
            ELSE [err |-> "ok", file |-> writePage(f, pageID, d4),
                  pageID |-> pageID, offset |-> freeOffset]

\* addRowToPage persisting the buffer under the page id before its own
addRowToPage_PageBefore(f, pageID, data, rowData, writeFails) ==
    LET rowCount   == GetU16(data, 5)
        freeOffset == GetU16(data, 15)
        lo         == U16Add(freeOffset, 2)
        hi         == U16Add(lo, Len(rowData) % 65536)
        bad        == [err |-> "panic", file |-> f, pageID |-> 0, offset |-> 0]
    IN  IF ~SliceOK(data, freeOffset, lo) \/ ~SliceOK(data, lo, hi) THEN bad
        ELSE
        LET d1 == PutBytes(data, freeOffset, LEBytes(Len(rowData) % 65536, 2))
            d2 == PutBytes(d1, lo, SubSeq(rowData, 1, hi - lo))
            d3 == PutBytes(d2, 5, LEBytes(U16Add(rowCount, 1), 2))
            d4 == PutBytes(d3, 15, LEBytes(hi, 2))
        IN  IF writeFails
            THEN [err |-> "IOError", file |-> f, pageID |-> 0, offset |-> 0]
            ELSE [err |-> "ok", file |-> writePage(f, pageID - 1, d4),
                  pageID |-> pageID, offset |-> freeOffset]

\* addRowToPage returning the offset of the row bytes, not of the length prefix
addRowToPage_OffsetPastPrefix(f, pageID, data, rowData, writeFails) ==
    LET rowCount   == GetU16(data, 5)
        freeOffset == GetU16(data, 15)
        lo         == U16Add(freeOffset, 2)
        hi         == U16Add(lo, Len(rowData) % 65536)
        bad        == [err |-> "panic", file |-> f, pageID |-> 0, offset |-> 0]
    IN  IF ~SliceOK(data, freeOffset, lo) \/ ~SliceOK(data, lo, hi) THEN bad
        ELSE
        LET d1 == PutBytes(data, freeOffset, LEBytes(Len(rowData) % 65536, 2))
            d2 == PutBytes(d1, lo, SubSeq(rowData, 1, hi - lo))
            d3 == PutBytes(d2, 5, LEBytes(U16Add(rowCount, 1), 2))
            d4 == PutBytes(d3, 15, LEBytes(hi, 2))
        IN  IF writeFails
            THEN [err |-> "IOError", file |-> f, pageID |-> 0, offset |-> 0]
            ELSE [err |-> "ok", file |-> writePage(f, pageID, d4),
                  pageID |-> pageID, offset |-> lo]

\* addRowToPage leaving the row count of the header as it was
addRowToPage_CountKept(f, pageID, data, rowData, writeFails) ==
    LET freeOffset == GetU16(data, 15)
        lo         == U16Add(freeOffset, 2)
        hi         == U16Add(lo, Len(rowData) % 65536)
        bad        == [err |-> "panic", file |-> f, pageID |-> 0, offset |-> 0]
    IN  IF ~SliceOK(data, freeOffset, lo) \/ ~SliceOK(data, lo, hi) THEN bad
        ELSE
        LET d1 == PutBytes(data, freeOffset, LEBytes(Len(rowData) % 65536, 2))
            d2 == PutBytes(d1, lo, SubSeq(rowData, 1, hi - lo))
            d4 == PutBytes(d2, 15, LEBytes(hi, 2))
        IN  IF writeFails
            THEN [err |-> "IOError", file |-> f, pageID |-> 0, offset |-> 0]
            ELSE [err |-> "ok", file |-> writePage(f, pageID, d4),
                  pageID |-> pageID, offset |-> freeOffset]

\* [err, file, pageID, offset]: append the record to the page buffer and persist
\* it; writeFails: the WriteAt of writePage returns an error
addRowToPage(f, pageID, data, rowData, writeFails) ==
    LET rowCount   == GetU16(data, 5)
        freeOffset == GetU16(data, 15)
        lo         == U16Add(freeOffset, 2)
        hi         == U16Add(lo, Len(rowData) % 65536)
        bad        == [err |-> "panic", file |-> f, pageID |-> 0, offset |-> 0]
    IN  IF ~SliceOK(data, freeOffset, lo) \/ ~SliceOK(data, lo, hi) THEN bad
        ELSE
        LET d1 == PutBytes(data, freeOffset, LEBytes(Len(rowData) % 65536, 2))
            d2 == PutBytes(d1, lo, SubSeq(rowData, 1, hi - lo))
            d3 == PutBytes(d2, 5, LEBytes(U16Add(rowCount, 1), 2))
            d4 == PutBytes(d3, 15, LEBytes(hi, 2))
        IN  IF writeFails
            THEN [err |-> "IOError", file |-> f, pageID |-> 0, offset |-> 0]
            ELSE [err |-> "ok", file |-> writePage(f, pageID, d4),
                  pageID |-> pageID, offset |-> freeOffset]

\* findPageForRow leaving the next-page-id of the old last page as it is
findPageForRow_NoLink(f, table, npid, values, env) ==
    LET out(err, f2, t2, n2, pid, off) ==
            [err |-> err, file |-> f2, table |-> t2, nextPageID |-> n2,
             pageID |-> pid, offset |-> off]
        \* return db.addRowToPage(...)
        placed(add, t2, n2) == out(add.err, add.file, t2, n2, add.pageID, add.offset)
        \* the row goes to the last page, or to a new page linked behind it
        choose(rowData, hasLast, last) ==
            IF last.err # "ok" THEN out("IOError", f, table, npid, 0, 0)
            ELSE IF ~hasLast \/ ~hasEnoughSpace(last.data, Len(rowData) + 2) THEN
                placed(addRowToPage(f, npid, NewPageData(PTData, table.ID), rowData,
                                    env.failedWrite = 1),
                       [table EXCEPT !.FirstPageID = IF hasLast THEN @ ELSE npid,
                                     !.LastPageID = npid],
                       npid + 1)
            ELSE placed(addRowToPage(f, table.LastPageID, last.data, rowData,
                                     env.failedWrite = 1),
                        table, npid)
        serialized(ser) ==
            IF ser.err # "ok" THEN out(ser.err, f, table, npid, 0, 0)
            ELSE choose(ser.bytes, table.LastPageID # 0,
                        IF table.LastPageID = 0 THEN [err |-> "ok", data |-> <<>>]
                        ELSE IF env.failedRead = 1 THEN [err |-> "IOError", data |-> <<>>]
                        ELSE readPage(f, table.LastPageID))
    IN  serialized(serializeRow(values, table, env.build))

\* [err, file, table, nextPageID, pageID, offset]: the state left by
\* findPageForRow(table, row), also when it fails part-way.  env is what the
\* call meets outside the Database: the build of the program and the numbers
\* failedWrite and failedRead of the WriteAt and of the ReadAt of this call
\* that fail (0: none fails)
findPageForRow(f, table, npid, values, env) ==
    LET out(err, f2, t2, n2, pid, off) ==
            [err |-> err, file |-> f2, table |-> t2, nextPageID |-> n2,
             pageID |-> pid, offset |-> off]
        \* return db.addRowToPage(...)
        placed(add, t2, n2) == out(add.err, add.file, t2, n2, add.pageID, add.offset)
        \* the row goes to the last page, or to a new page linked behind it
        choose(rowData, hasLast, last) ==
            IF last.err # "ok" THEN out("IOError", f, table, npid, 0, 0)
            ELSE IF ~hasLast \/ ~hasEnoughSpace(last.data, Len(rowData) + 2) THEN
                \* db.nextPageID++ comes first; the write of the link into the
                \* old last page is the first WriteAt of the call
                IF hasLast /\ env.failedWrite = 1
                THEN out("IOError", f, table, npid + 1, 0, 0)
                ELSE placed(addRowToPage(IF hasLast
                                         THEN writePage(f, table.LastPageID,
                                                        PutBytes(last.data, 7, LEBytes(npid, 8)))
                                         ELSE f,
                                         npid, NewPageData(PTData, table.ID), rowData,
                                         env.failedWrite = (IF hasLast THEN 2 ELSE 1)),
                            [table EXCEPT !.FirstPageID = IF hasLast THEN @ ELSE npid,
                                          !.LastPageID = npid],
                            npid + 1)
            ELSE placed(addRowToPage(f, table.LastPageID, last.data, rowData,
                                     env.failedWrite = 1),
                        table, npid)
        serialized(ser) ==
            IF ser.err # "ok" THEN out(ser.err, f, table, npid, 0, 0)
            ELSE choose(ser.bytes, table.LastPageID # 0,
                        IF table.LastPageID = 0 THEN [err |-> "ok", data |-> <<>>]
                        ELSE IF env.failedRead = 1 THEN [err |-> "IOError", data |-> <<>>]
                        ELSE readPage(f, table.LastPageID))
    IN  serialized(serializeRow(values, table, env.build))

(***************************************************************************)
(* Row index: the entries of one B-tree, ordered by (TableID, RowID).      *)
(***************************************************************************)
Less(a, b) ==
    IF a.TableID # b.TableID THEN U32Less(a.TableID, b.TableID) ELSE a.RowID < b.RowID

\* ReplaceOrInsert: an entry that compares equal to the new one is replaced
ReplaceOrInsert(index, item) ==
    {e \in index : Less(e, item) \/ Less(item, e)} \cup {item}

RECURSIVE Ascend_Descending(_)
\* Ascend visiting the greatest entry first
Ascend_Descending(index) ==
    IF index = {} THEN <<>>
    ELSE LET first == CHOOSE e \in index : \A o \in index : ~Less(e, o)
         IN  <<first>> \o Ascend_Descending(index \ {first})

RECURSIVE Ascend(_)
\* the entries in ascending order
Ascend(index) ==
    IF index = {} THEN <<>>
    ELSE LET first == CHOOSE e \in index : \A o \in index : ~Less(o, e)
         IN  <<first>> \o Ascend(index \ {first})

(***************************************************************************)
(* Query engine.                                                           *)
(***************************************************************************)
NumericCompared == {"int", "int64", "float64"}

AsFloat(v) == IF v.kind = "float64" THEN v.s ELSE IntToFloat(v.s)

\* compareValues without the nil tests at its head: a nil operand falls
\* through every type switch to the final return
compareValues_NoNilOrder(a, b) ==
    IF a.kind \in NumericCompared /\ b.kind \in NumericCompared THEN
        LET aNum == AsFloat(a)
            bNum == AsFloat(b)
        IN  IF FloatLess(aNum, bNum) THEN -1
            ELSE IF FloatLess(bNum, aNum) THEN 1
            ELSE 0
    ELSE IF a.kind = "string" /\ b.kind = "string" THEN
        IF SeqLess(a.s, b.s) THEN -1 ELSE IF SeqLess(b.s, a.s) THEN 1 ELSE 0
    ELSE IF a.kind = "bool" /\ b.kind = "bool" THEN
        IF a.s = b.s THEN 0 ELSE IF a.s = <<1>> THEN 1 ELSE -1
    ELSE 0

\* -1, 0 or 1
compareValues(a, b) ==
    IF a.kind = "nil" /\ b.kind = "nil" THEN 0
    ELSE IF a.kind = "nil" THEN -1
    ELSE IF b.kind = "nil" THEN 1
    ELSE IF a.kind \in NumericCompared /\ b.kind \in NumericCompared THEN
        LET ordered(aNum, bNum) ==
                IF FloatLess(aNum, bNum) THEN -1
                ELSE IF FloatLess(bNum, aNum) THEN 1
                ELSE 0
        IN  ordered(AsFloat(a), AsFloat(b))
    ELSE IF a.kind = "string" /\ b.kind = "string" THEN
        IF SeqLess(a.s, b.s) THEN -1 ELSE IF SeqLess(b.s, a.s) THEN 1 ELSE 0
    ELSE IF a.kind = "bool" /\ b.kind = "bool" THEN
        IF a.s = b.s THEN 0 ELSE IF a.s = <<1>> THEN 1 ELSE -1
    ELSE 0

Percent == 37

contains(str, substr) ==
    \E i \in 0..(Len(str) - Len(substr)) : Slice(str, i, i + Len(substr)) = substr

matchLike(str, pattern) ==
    IF pattern = <<Percent>> THEN TRUE
    ELSE IF Len(pattern) > 0 /\ pattern[1] = Percent THEN
        LET suffix == Tail(pattern)
        IN  IF Len(suffix) > 0 /\ suffix[Len(suffix)] = Percent THEN
                LET middle == SubSeq(suffix, 1, Len(suffix) - 1)
                IN  Len(middle) > 0 /\ contains(str, middle)
            ELSE Len(str) >= Len(suffix)
                 /\ Slice(str, Len(str) - Len(suffix), Len(str)) = suffix
    ELSE IF Len(pattern) > 0 /\ pattern[Len(pattern)] = Percent THEN
        LET prefix == SubSeq(pattern, 1, Len(pattern) - 1)
        IN  Len(str) >= Len(prefix) /\ Slice(str, 0, Len(prefix)) = prefix
    ELSE str = pattern

\* A condition is [type |-> "nil"], [type |-> "byid", id], or
\* [type |-> "where", col, op, value], the closure SelectWhere builds.
NilCond == [type |-> "nil"]
ByID(id) == [type |-> "byid", id |-> id]
Where(col, op, value) == [type |-> "where", col |-> col, op |-> op, value |-> value]

\* whereCondition reading a missing column as nil instead of returning false
whereCondition_NoExistsTest(cond, row) ==
    LET rowVal == IF cond.col \in DOMAIN row.Values THEN row.Values[cond.col] ELSE Nil
        c      == compareValues(rowVal, cond.value)
    IN  IF cond.op \in {"=", "=="} THEN c = 0
        ELSE IF cond.op = ">" THEN c > 0
        ELSE IF cond.op = ">=" THEN c >= 0
        ELSE IF cond.op = "<" THEN c < 0
        ELSE IF cond.op = "<=" THEN c <= 0
        ELSE IF cond.op \in {"!=", "<>"} THEN c # 0
        ELSE rowVal.kind = "string" /\ matchLike(rowVal.s, cond.value.s)

\* the closure built for operator op, applied to a decoded row
whereCondition(cond, row) ==
    LET test(rowVal, c) ==
            IF cond.op \in {"=", "=="} THEN c = 0
            ELSE IF cond.op = ">" THEN c > 0
            ELSE IF cond.op = ">=" THEN c >= 0
            ELSE IF cond.op = "<" THEN c < 0
            ELSE IF cond.op = "<=" THEN c <= 0
            ELSE IF cond.op \in {"!=", "<>"} THEN c # 0
            ELSE rowVal.kind = "string" /\ matchLike(rowVal.s, cond.value.s)
    IN  IF cond.col \notin DOMAIN row.Values THEN FALSE
        ELSE test(row.Values[cond.col], compareValues(row.Values[cond.col], cond.value))

\* condition == nil || condition(row)
holds(cond, row) ==
    IF cond.type = "nil" THEN TRUE
    ELSE IF cond.type = "byid" THEN row.RowID = cond.id
    ELSE whereCondition(cond, row)

RECURSIVE scanIndex(_, _, _, _, _)
\* the Ascend callback of Select applied to entries i.. of the ordered index
scanIndex(f, table, entries, i, cond) ==
    LET bad == [err |-> "panic", rows |-> <<>>]
        \* the row is appended when the condition holds; the scan goes on
        keep(row, rest) ==
            IF rest.err # "ok" THEN rest
            ELSE IF holds(cond, row) THEN [err |-> "ok", rows |-> <<row>> \o rest.rows]
            ELSE rest
        decoded(e, dec) ==
            IF dec.err # "ok" THEN bad
            ELSE keep([RowID |-> e.RowID, Values |-> dec.values],
                      scanIndex(f, table, entries, i + 1, cond))
        sized(e, data, lo, rowSize) ==
            IF ~SliceOK(data, lo, U16Add(lo, rowSize)) THEN bad
            ELSE decoded(e, deserializeRow(data, lo, rowSize, table))
        visit(e, page) ==
            IF page.err # "ok" THEN scanIndex(f, table, entries, i + 1, cond)
            ELSE IF ~SliceOK(page.data, e.Ptr.Offset, U16Add(e.Ptr.Offset, 2)) THEN bad
            ELSE sized(e, page.data, U16Add(e.Ptr.Offset, 2), GetU16(page.data, e.Ptr.Offset))
    IN  IF i > Len(entries) THEN [err |-> "ok", rows |-> <<>>]
        ELSE visit(entries[i], readPage(f, entries[i].Ptr.PageID))

\* [err, rows]
Select(f, tbls, idx, tableName, cond) ==
    IF tableName \notin DOMAIN tbls THEN [err |-> "TableNotFound", rows |-> <<>>]
    ELSE IF tableName \notin DOMAIN idx THEN [err |-> "IndexNotFound", rows |-> <<>>]
    ELSE scanIndex(f, tbls[tableName], Ascend(idx[tableName]), 1, cond)

SelectAll(f, tbls, idx, tableName) == Select(f, tbls, idx, tableName, NilCond)

\* SelectByID taking the first row of the table whatever its id
SelectByID_Unfiltered(f, tbls, idx, tableName, id) ==
    LET first(r) ==
            IF r.err # "ok" THEN r
            ELSE IF Len(r.rows) = 0 THEN [err |-> "RowNotFound", rows |-> <<>>]
            ELSE [err |-> "ok", rows |-> <<r.rows[1]>>]
    IN  first(Select(f, tbls, idx, tableName, NilCond))

\* [err, rows]: rows holds the one row found
SelectByID(f, tbls, idx, tableName, id) ==
    LET first(r) ==
            IF r.err # "ok" THEN r
            ELSE IF Len(r.rows) = 0 THEN [err |-> "RowNotFound", rows |-> <<>>]
            ELSE [err |-> "ok", rows |-> <<r.rows[1]>>]
    IN  first(Select(f, tbls, idx, tableName, ByID(id)))

Operators == {"=", "==", ">", ">=", "<", "<=", "!=", "<>", "LIKE"}

\* the checks SelectWhere makes before it scans: the error, or "ok"
whereChecks(tbls, tableName, columnName, op, value) ==
    IF tableName \notin DOMAIN tbls THEN "TableNotFound"
    ELSE
    LET cols == tbls[tableName].Columns
    IN  IF \A i \in 1..Len(cols) : cols[i].Name # columnName THEN "ColumnNotFound"
        ELSE
        LET target == cols[CHOOSE i \in 1..Len(cols) :
                             cols[i].Name = columnName
                             /\ \A j \in 1..(i - 1) : cols[j].Name # columnName]
            valid  == validateValueType(value, target.Type)
        IN  IF valid # "ok" THEN valid
            ELSE IF op = "LIKE" /\ value.kind # "string" THEN "LikeNeedsString"
            ELSE IF op \notin Operators THEN "UnsupportedOperator"
            ELSE "ok"

\* [err, rows]
SelectWhere(f, tbls, idx, tableName, columnName, op, value) ==
    LET checked(err) ==
            IF err # "ok" THEN [err |-> err, rows |-> <<>>]
            ELSE Select(f, tbls, idx, tableName, Where(columnName, op, value))
    IN  checked(whereChecks(tbls, tableName, columnName, op, value))

\* the set of names ListTables returns (as a slice in map order)
ListTables(tbls) == DOMAIN tbls

\* [err, count]
GetRowCount(idx, tableName) ==
    IF tableName \notin DOMAIN idx THEN [err |-> "TableNotFound", count |-> 0]
    ELSE [err |-> "ok", count |-> Cardinality(idx[tableName])]

(***************************************************************************)
(* Recovery loader.                                                        *)
(***************************************************************************)
RECURSIVE indexRows_NoPrefix(_, _, _, _, _, _)
\* indexRows stepping over the row bytes but not over the 2-byte length prefix
indexRows_NoPrefix(data, pageID, table, index, left, offset) ==
    IF left = 0 THEN [err |-> "ok", index |-> index]
    ELSE IF offset >= Len(data) % 65536 \/ U16Add(offset, 2) > Len(data) % 65536
         THEN [err |-> "CorruptData", index |-> index]
    ELSE IF ~SliceOK(data, offset, U16Add(offset, 2)) THEN [err |-> "panic", index |-> index]
    ELSE LET rowSize == GetU16(data, offset)
             item == [TableID |-> table.ID, RowID |-> Cardinality(index) + 1,
                      Ptr |-> [PageID |-> pageID, Offset |-> offset]]
         IN  indexRows_NoPrefix(data, pageID, table, ReplaceOrInsert(index, item), left - 1,
                                U16Add(offset, rowSize))

RECURSIVE indexRows_PerPageIDs(_, _, _, _, _, _)
\* indexRows numbering the records of every page from 1
indexRows_PerPageIDs(data, pageID, table, index, left, offset) ==
    IF left = 0 THEN [err |-> "ok", index |-> index]
    ELSE IF offset >= Len(data) % 65536 \/ U16Add(offset, 2) > Len(data) % 65536
         THEN [err |-> "CorruptData", index |-> index]
    ELSE IF ~SliceOK(data, offset, U16Add(offset, 2)) THEN [err |-> "panic", index |-> index]
    ELSE LET rowSize == GetU16(data, offset)
             item == [TableID |-> table.ID, RowID |-> GetU16(data, 5) - left + 1,
                      Ptr |-> [PageID |-> pageID, Offset |-> offset]]
         IN  indexRows_PerPageIDs(data, pageID, table, ReplaceOrInsert(index, item),
                                  left - 1, U16Add(offset, U16Add(2, rowSize)))

RECURSIVE indexRows(_, _, _, _, _, _)
\* the loop of indexRowsInPage: rows i.. of rowCount, the next record at offset
indexRows(data, pageID, table, index, left, offset) ==
    IF left = 0 THEN [err |-> "ok", index |-> index]
    ELSE IF offset >= Len(data) % 65536 \/ U16Add(offset, 2) > Len(data) % 65536
         THEN [err |-> "CorruptData", index |-> index]
    ELSE IF ~SliceOK(data, offset, U16Add(offset, 2)) THEN [err |-> "panic", index |-> index]
    ELSE LET rowSize == GetU16(data, offset)
             item == [TableID |-> table.ID, RowID |-> Cardinality(index) + 1,
                      Ptr |-> [PageID |-> pageID, Offset |-> offset]]
         IN  indexRows(data, pageID, table, ReplaceOrInsert(index, item), left - 1,
                       U16Add(offset, U16Add(2, rowSize)))

indexRowsInPage(data, pageID, table, index) ==
    indexRows(data, pageID, table, index, GetU16(data, 5), HeaderSize)

RECURSIVE loadTables(_, _, _, _)
\* first pass of loadExistingData from page pageID on; st = [err, tables,
\* rowIndices, nextTableID].  env.failedRead is the number of the ReadAt of
\* the call that fails (0: none fails); the first pass reads page p with
\* ReadAt number p + 1
loadTables(f, pageID, st, env) ==
    LET loaded(d) ==
            IF d.err # "ok" THEN [st EXCEPT !.err = d.err]
            ELSE loadTables(f, pageID + 1,
                   [st EXCEPT
                      !.rowIndices = (d.table.Name :> {}) @@ @,
                      !.tables = (d.table.Name :> d.table) @@ @,
                      !.nextTableID = IF ~U32Less(d.table.ID, @) THEN U32Inc(d.table.ID)
                                      ELSE @],
                   env)
    IN  IF pageID >= Len(f) \/ st.err # "ok" THEN st
        ELSE IF env.failedRead = pageID + 1 THEN [st EXCEPT !.err = "IOError"]
        ELSE IF f[pageID + 1][1] # PTTable THEN loadTables(f, pageID + 1, st, env)
        ELSE loaded(deserializeTable(f[pageID + 1]))

RECURSIVE loadData_LastIsFirst(_, _, _, _)
\* loadData taking the first data page of a table as its last page too
loadData_LastIsFirst(f, pageID, st, env) ==
    LET indexed(name, t2, ix) ==
            IF ix.err # "ok"
            THEN {[st EXCEPT !.err = ix.err, !.tables[name] = t2,
                             !.rowIndices[name] = ix.index]}
            ELSE loadData_LastIsFirst(f, pageID + 1,
                   [st EXCEPT !.tables[name] = t2, !.rowIndices[name] = ix.index], env)
        chained(data, name, t0) ==
            [t0 EXCEPT !.FirstPageID = IF @ = 0 THEN pageID ELSE @,
                       !.LastPageID = IF @ = 0 THEN pageID ELSE @]
        owned(data, name, t2) ==
            indexed(name, t2, indexRowsInPage(data, pageID, t2, st.rowIndices[name]))
        \* the owner is the first table of the page's table id that the
        \* iteration over the map db.tables yields: any one of them
        found(data, owners) ==
            IF owners = {} THEN {[st EXCEPT !.err = "CorruptData"]}
            ELSE UNION {owned(data, n, chained(data, n, st.tables[n])) : n \in owners}
    IN  IF pageID >= Len(f) \/ st.err # "ok" THEN {st}
        ELSE IF env.failedRead = Len(f) + pageID + 1 THEN {[st EXCEPT !.err = "IOError"]}
        ELSE IF f[pageID + 1][1] # PTData THEN loadData_LastIsFirst(f, pageID + 1, st, env)
        ELSE found(f[pageID + 1],
                   {n \in DOMAIN st.tables :
                        st.tables[n].ID = Slice(f[pageID + 1], 1, 5)})

RECURSIVE loadData(_, _, _, _)
\* second pass of loadExistingData from page pageID on: the set of the
\* states it can leave.  It reads page p with ReadAt number Len(f) + p + 1
loadData(f, pageID, st, env) ==
    LET indexed(name, t2, ix) ==
            IF ix.err # "ok"
            THEN {[st EXCEPT !.err = ix.err, !.tables[name] = t2,
                             !.rowIndices[name] = ix.index]}
            ELSE loadData(f, pageID + 1,
                   [st EXCEPT !.tables[name] = t2, !.rowIndices[name] = ix.index], env)
        \* FirstPageID is set on the table's first data page, LastPageID on the
        \* page whose next-page pointer is zero
        chained(data, name, t0) ==
            [t0 EXCEPT !.FirstPageID = IF @ = 0 THEN pageID ELSE @,
                       !.LastPageID = IF IsZeroBytes(Slice(data, 7, 15)) THEN pageID ELSE @]
        owned(data, name, t2) ==
            indexed(name, t2, indexRowsInPage(data, pageID, t2, st.rowIndices[name]))
        \* the owner is the first table of the page's table id that the
        \* iteration over the map db.tables yields: any one of them
        found(data, owners) ==
            IF owners = {} THEN {[st EXCEPT !.err = "CorruptData"]}
            ELSE UNION {owned(data, n, chained(data, n, st.tables[n])) : n \in owners}
    IN  IF pageID >= Len(f) \/ st.err # "ok" THEN {st}
        ELSE IF env.failedRead = Len(f) + pageID + 1 THEN {[st EXCEPT !.err = "IOError"]}
        ELSE IF f[pageID + 1][1] # PTData THEN loadData(f, pageID + 1, st, env)
        ELSE found(f[pageID + 1],
                   {n \in DOMAIN st.tables :
                        st.tables[n].ID = Slice(f[pageID + 1], 1, 5)})

EmptyMap == [x \in {} |-> 0]

\* NewDatabase leaving the table-id counter at 1 after loading the file
NewDatabase_CounterNotAdvanced(f, env) ==
    LET fresh == [err |-> "ok", tables |-> EmptyMap, rowIndices |-> EmptyMap,
                  nextPageID |-> 0, nextTableID |-> LEBytes(1, 4)]
    IN  IF Len(f) = 0 THEN {fresh}
        ELSE {[db EXCEPT !.nextPageID = Len(f), !.nextTableID = LEBytes(1, 4)] :
                 db \in loadData(f, 0, loadTables(f, 0, fresh, env), env)}

\* NewDatabase without the second pass of loadExistingData
NewDatabase_TablesOnly(f, env) ==
    LET fresh == [err |-> "ok", tables |-> EmptyMap, rowIndices |-> EmptyMap,
                  nextPageID |-> 0, nextTableID |-> LEBytes(1, 4)]
    IN  IF Len(f) = 0 THEN {fresh}
        ELSE {[loadTables(f, 0, fresh, env) EXCEPT !.nextPageID = Len(f)]}

\* NewDatabase setting the page-id counter to the id of the last page
NewDatabase_LastPageAsNext(f, env) ==
    LET fresh == [err |-> "ok", tables |-> EmptyMap, rowIndices |-> EmptyMap,
                  nextPageID |-> 0, nextTableID |-> LEBytes(1, 4)]
    IN  IF Len(f) = 0 THEN {fresh}
        ELSE {[db EXCEPT !.nextPageID = Len(f) - 1] :
                 db \in loadData(f, 0, loadTables(f, 0, fresh, env), env)}

\* NewDatabase leaving the page-id counter at 0 after loading the file
NewDatabase_PagesFromZero(f, env) ==
    LET fresh == [err |-> "ok", tables |-> EmptyMap, rowIndices |-> EmptyMap,
                  nextPageID |-> 0, nextTableID |-> LEBytes(1, 4)]
    IN  IF Len(f) = 0 THEN {fresh}
        ELSE {[db EXCEPT !.nextPageID = 0] :
                 db \in loadData(f, 0, loadTables(f, 0, fresh, env), env)}

\* the results [err, tables, rowIndices, nextPageID, nextTableID] NewDatabase
\* can have on file f: one when no two tables of the file share an id
NewDatabase(f, env) ==
    LET fresh == [err |-> "ok", tables |-> EmptyMap, rowIndices |-> EmptyMap,
                  nextPageID |-> 0, nextTableID |-> LEBytes(1, 4)]
    IN  IF Len(f) = 0 THEN {fresh}
        ELSE {[db EXCEPT !.nextPageID = Len(f)] :
                 db \in loadData(f, 0, loadTables(f, 0, fresh, env), env)}

(***************************************************************************)
(* State.                                                                  *)
(***************************************************************************)
VARIABLES
    file,          \* the backing file: its pages in page-id order
    handle,        \* "open" while a Database returned by NewDatabase is in use
    tables,        \* Database.tables: table name -> Table
    rowIndices,    \* Database.rowIndices: table name -> set of RowIndex entries
    nextPageID,    \* Database.nextPageID
    nextTableID,   \* Database.nextTableID
    res,           \* the last call: its name, arguments and results
    inserted,      \* history: per table, the rows whose Insert returned nil, in
                   \* order, each as it was stored
    mu,            \* Database.mu: the goroutine holding the write lock (0: none)
                   \* and the set of goroutines holding the read lock
    calls          \* per goroutine, the call it is in and its position in it

dbvars == <<file, tables, rowIndices, nextPageID, nextTableID>>
vars == <<file, handle, tables, rowIndices, nextPageID, nextTableID, res, inserted, mu, calls>>

Goroutines == 1..NumGoroutines

\* the fields of the Database that CreateTable and Insert work on, and the
\* pages of its file
Database ==
    [file |-> file, tables |-> tables, rowIndices |-> rowIndices,
     nextPageID |-> nextPageID, nextTableID |-> nextTableID]

\* the value a reader gets back for val written into a column of type
\* colType: the conversions of serializeRow's switch and of deserializeRow's.
\* It is the value of the field taken alone; whether the record that holds
\* the field reaches the page whole is decided where the row is stored
\* (InsertIn).
StoredValue(colType, val, build) ==
    IF colType = TInteger
    THEN [kind |-> "int64",
          s |-> IF val.kind = "float64" THEN FloatToInt(val.s, build) ELSE val.s]
    ELSE IF colType = Tfloat
    THEN [kind |-> "float64",
          s |-> IF val.kind \in IntKinds THEN IntegerToFloat(val) ELSE val.s]
    \* the 16-bit length prefix keeps the first len mod 65536 bytes of a string
    ELSE IF colType = Tstring
    THEN [kind |-> "string", s |-> SubSeq(val.s, 1, Len(val.s) % 65536)]
    ELSE val

\* the row a reader is due to see for an accepted value map whose record is
\* stored whole (a record of fewer than 65536 bytes, put behind the page
\* header): nulls are absent, every other column holds its StoredValue.
\* deserializeRow assigns row.Values[col.Name] column by column, so under a
\* name that several columns bear the reader finds the field of the last of
\* them.
StoredRow(cols, values, build) ==
    [name \in {n \in DOMAIN values : values[n].kind # "nil"} |->
        StoredValue(cols[CHOOSE i \in 1..Len(cols) :
                            /\ cols[i].Name = name
                            /\ \A j \in (i + 1)..Len(cols) : cols[j].Name # name].Type,
                    values[name], build)]

\* what ListTables, GetRowCount and SelectAll return for every table
View(f, tbls, idx) ==
    [names  |-> ListTables(tbls),
     counts |-> [n \in DOMAIN tbls |-> GetRowCount(idx, n)],
     rows   |-> [n \in DOMAIN tbls |-> SelectAll(f, tbls, idx, n)]]

Init ==
    /\ file = <<>>
    /\ handle = "open"
    /\ tables = EmptyMap
    /\ rowIndices = EmptyMap
    /\ nextPageID = 0
    /\ nextTableID = LEBytes(1, 4)
    /\ res = [op |-> "Open", err |-> "ok", closed |-> View(<<>>, EmptyMap, EmptyMap)]
    /\ inserted = EmptyMap
    /\ mu = [writer |-> 0, readers |-> {}]
    /\ calls = [g \in Goroutines |-> [pc |-> "idle"]]

(***************************************************************************)
(* Operations.                                                             *)
(***************************************************************************)
\* createChecks without the lookup of the name in db.tables
createChecks_NoDuplicateCheck(tbls, tableName, columns, primaryKey) ==
    IF primaryKey # <<>> /\ \A i \in 1..Len(columns) : columns[i].Name # primaryKey
    THEN "PrimaryKeyColumnNotFound"
    ELSE "ok"

\* createChecks without the search for the primary-key column
createChecks_NoPKCheck(tbls, tableName, columns, primaryKey) ==
    IF tableName \in DOMAIN tbls THEN "TableAlreadyExists" ELSE "ok"

\* the checks at the head of CreateTable
createChecks(tbls, tableName, columns, primaryKey) ==
    IF tableName \in DOMAIN tbls THEN "TableAlreadyExists"
    ELSE IF primaryKey # <<>> /\ \A i \in 1..Len(columns) : columns[i].Name # primaryKey
         THEN "PrimaryKeyColumnNotFound"
    ELSE "ok"

\* [err, file, tables, rowIndices, nextPageID, nextTableID]: the body of
\* CreateTable run on the Database db while its w-th writePage (1: the table
\* page, 2: the data page) returns an error (any other w: none does); a
\* failed WriteAt leaves the file as it was
createTable(db, tableName, columns, primaryKey, w) ==
    LET out(err, f2, t2, i2, n2, id2) ==
            [err |-> err, file |-> f2, tables |-> t2, rowIndices |-> i2,
             nextPageID |-> n2, nextTableID |-> id2]
        \* db.nextTableID++ and the new index come before the pages
        written(table, ser, i2, id2) ==
            IF ser.err # "ok"
            THEN out(ser.err, db.file, db.tables, i2, db.nextPageID + 1, id2)
            ELSE IF w \in {1, 2}
            THEN out("IOError",
                     IF w = 2 THEN writePage(db.file, db.nextPageID, ser.data) ELSE db.file,
                     db.tables, i2, db.nextPageID + 2, id2)
            ELSE out("ok",
                     writePage(writePage(db.file, db.nextPageID, ser.data),
                               db.nextPageID + 1, NewPageData(PTData, table.ID)),
                     (tableName :> [table EXCEPT !.FirstPageID = db.nextPageID + 1,
                                                 !.LastPageID = db.nextPageID + 1])
                     @@ db.tables,
                     i2, db.nextPageID + 2, id2)
        create(table) ==
            written(table, serializeTable(table, NewPageData(PTTable, table.ID)),
                    (tableName :> {}) @@ db.rowIndices, U32Inc(db.nextTableID))
        checked(check) ==
            IF check # "ok"
            THEN out(check, db.file, db.tables, db.rowIndices, db.nextPageID, db.nextTableID)
            ELSE create([ID |-> db.nextTableID, Name |-> tableName, Columns |-> columns,
                         PK |-> primaryKey, FirstPageID |-> 0, LastPageID |-> 0])
    IN  checked(createChecks(db.tables, tableName, columns, primaryKey))

\* CreateTable run on the Database db while its w-th writePage fails: the
\* call returns, the Database is as the body left it, and a created table
\* starts its history of rows
CreateTableIn(db, tableName, columns, primaryKey, w) ==
    LET returned(r) ==
            /\ file' = r.file
            /\ tables' = r.tables
            /\ rowIndices' = r.rowIndices
            /\ nextPageID' = r.nextPageID
            /\ nextTableID' = r.nextTableID
            /\ inserted' = IF r.err = "ok" THEN (tableName :> <<>>) @@ inserted
                           ELSE inserted
            /\ res' = [op |-> "CreateTable", name |-> tableName, cols |-> columns,
                       pk |-> primaryKey, err |-> r.err]
    IN
    /\ UNCHANGED handle
    /\ returned(createTable(db, tableName, columns, primaryKey, w))

\* CreateTable on the Database: every WriteAt succeeds while the file is
\* open, and the first one fails once Close has closed it
CreateTable(tableName, columns, primaryKey) ==
    CreateTableIn(Database, tableName, columns, primaryKey,
                  IF handle = "open" THEN 0 ELSE 1)

\* newRowID giving every row the id 1
newRowID_AlwaysOne(index) == 1

\* newRowID counting from zero
newRowID_FromZero(index) == Cardinality(index)

\* rowID := uint64(db.rowIndices[tableName].Len() + 1)
newRowID(index) == Cardinality(index) + 1

\* insertRow validating the value map only after the row was placed
insertRow_LateValidation(f, tbls, idx, npid, tableName, values, env) ==
    LET out(err, rowID, f2, t2, i2, n2) ==
            [err |-> err, rowID |-> rowID, file |-> f2, tables |-> t2,
             rowIndices |-> i2, nextPageID |-> n2]
        indexed(table, rowID, valid, place) ==
            IF place.err # "ok" \/ valid # "ok"
            THEN out(IF valid # "ok" THEN valid ELSE place.err, 0, place.file,
                     [tbls EXCEPT ![tableName] = place.table], idx, place.nextPageID)
            ELSE out("ok", rowID, place.file, [tbls EXCEPT ![tableName] = place.table],
                     [idx EXCEPT ![tableName] =
                         ReplaceOrInsert(@, [TableID |-> table.ID, RowID |-> rowID,
                                             Ptr |-> [PageID |-> place.pageID,
                                                      Offset |-> place.offset]])],
                     place.nextPageID)
    IN  IF tableName \notin DOMAIN tbls THEN out("TableNotFound", 0, f, tbls, idx, npid)
        ELSE indexed(tbls[tableName], Cardinality(idx[tableName]) + 1,
                     validateRowData(tbls[tableName], values),
                     findPageForRow(f, tbls[tableName], npid, values, env))

\* insertRow adding the index entry of the new row to the index of every table
insertRow_EveryIndex(f, tbls, idx, npid, tableName, values, env) ==
    LET out(err, rowID, f2, t2, i2, n2) ==
            [err |-> err, rowID |-> rowID, file |-> f2, tables |-> t2,
             rowIndices |-> i2, nextPageID |-> n2]
        indexed(table, rowID, place) ==
            IF place.err # "ok"
            THEN out(place.err, 0, place.file, [tbls EXCEPT ![tableName] = place.table],
                     idx, place.nextPageID)
            ELSE out("ok", rowID, place.file, [tbls EXCEPT ![tableName] = place.table],
                     [n \in DOMAIN idx |->
                         ReplaceOrInsert(idx[n], [TableID |-> table.ID, RowID |-> rowID,
                                                  Ptr |-> [PageID |-> place.pageID,
                                                           Offset |-> place.offset]])],
                     place.nextPageID)
        validated(table, valid) ==
            IF valid # "ok" THEN out(valid, 0, f, tbls, idx, npid)
            ELSE indexed(table, newRowID(idx[tableName]),
                         findPageForRow(f, table, npid, values, env))
    IN  IF tableName \notin DOMAIN tbls THEN out("TableNotFound", 0, f, tbls, idx, npid)
        ELSE validated(tbls[tableName], validateRowData(tbls[tableName], values))

\* [err, rowID, file, tables, rowIndices, nextPageID]: the body of Insert
insertRow(f, tbls, idx, npid, tableName, values, env) ==
    LET out(err, rowID, f2, t2, i2, n2) ==
            [err |-> err, rowID |-> rowID, file |-> f2, tables |-> t2,
             rowIndices |-> i2, nextPageID |-> n2]
        \* the row was placed (or not) by findPageForRow: index it
        indexed(table, rowID, place) ==
            IF place.err # "ok"
            THEN out(place.err, 0, place.file, [tbls EXCEPT ![tableName] = place.table],
                     idx, place.nextPageID)
            ELSE out("ok", rowID, place.file, [tbls EXCEPT ![tableName] = place.table],
                     [idx EXCEPT ![tableName] =
                         ReplaceOrInsert(@, [TableID |-> table.ID, RowID |-> rowID,
                                             Ptr |-> [PageID |-> place.pageID,
                                                      Offset |-> place.offset]])],
                     place.nextPageID)
        validated(table, valid) ==
            IF valid # "ok" THEN out(valid, 0, f, tbls, idx, npid)
            ELSE indexed(table, newRowID(idx[tableName]),
                         findPageForRow(f, table, npid, values, env))
    IN  IF tableName \notin DOMAIN tbls THEN out("TableNotFound", 0, f, tbls, idx, npid)
        ELSE validated(tbls[tableName], validateRowData(tbls[tableName], values))

\* Insert run on the Database db in the environment env: [build,
\* failedWrite, failedRead].  The history takes the row as it was stored: the
\* StoredRow of the values when the record reached its page whole, and
\* otherwise (a record cut to its length modulo 65536, a record put over
\* the header of a page that was never written) the row a scan reads back
\* at the new index entry, a row without values when it cannot be decoded.
InsertIn(db, tableName, values, env) ==
    LET back(scan) ==
            IF scan.err = "ok" /\ scan.rows # <<>> THEN scan.rows[1].Values ELSE EmptyMap
        at(r, e) ==
            IF /\ e.Ptr.Offset >= HeaderSize
               /\ Len(serializeRow(values, db.tables[tableName], env.build).bytes) < 65536
            THEN StoredRow(db.tables[tableName].Columns, values, env.build)
            ELSE back(scanIndex(r.file, r.tables[tableName], <<e>>, 1, NilCond))
        stored(r) ==
            at(r, CHOOSE e \in r.rowIndices[tableName] : e.RowID = r.rowID)
        returned(r) ==
            /\ file' = r.file
            /\ tables' = r.tables
            /\ rowIndices' = r.rowIndices
            /\ nextPageID' = r.nextPageID
            /\ nextTableID' = db.nextTableID
            /\ inserted' = IF r.err = "ok"
                           THEN (tableName :>
                                    Append(IF tableName \in DOMAIN inserted
                                           THEN inserted[tableName] ELSE <<>>,
                                           stored(r)))
                                @@ inserted
                           ELSE inserted
            /\ res' = [op |-> "Insert", name |-> tableName, values |-> values,
                       err |-> r.err, rowID |-> r.rowID]
    IN
    /\ UNCHANGED handle
    /\ returned(insertRow(db.file, db.tables, db.rowIndices, db.nextPageID,
                          tableName, values, env))

\* Insert on the Database: every ReadAt and WriteAt succeeds while the file
\* is open, and each of them fails once Close has closed it
Insert(tableName, values) ==
    \E build \in Builds :
        InsertIn(Database, tableName, values,
                 [build |-> build,
                  failedWrite |-> IF handle = "open" THEN 0 ELSE 1,
                  failedRead |-> IF handle = "open" THEN 0 ELSE 1])

\* a read-only call: only res changes
Query(result) ==
    /\ res' = result
    /\ UNCHANGED <<dbvars, handle, inserted>>

\* the scanning calls: once Close has closed the file every ReadAt fails, as
\* for pages past the end of the file
DoSelect(tableName, cond) ==
    LET returned(r) ==
            Query([op |-> "Select", name |-> tableName, cond |-> cond,
                   err |-> r.err, rows |-> r.rows])
    IN  returned(Select(IF handle = "open" THEN file ELSE <<>>, tables, rowIndices,
                     tableName, cond))

DoSelectAll(tableName) ==
    LET returned(r) ==
            Query([op |-> "SelectAll", name |-> tableName,
                   err |-> r.err, rows |-> r.rows])
    IN  returned(SelectAll(IF handle = "open" THEN file ELSE <<>>, tables, rowIndices,
                     tableName))

DoSelectByID(tableName, id) ==
    LET returned(r) ==
            Query([op |-> "SelectByID", name |-> tableName, id |-> id,
                   err |-> r.err, rows |-> r.rows])
    IN  returned(SelectByID(IF handle = "open" THEN file ELSE <<>>, tables, rowIndices,
                     tableName, id))

DoSelectWhere(tableName, columnName, op, value) ==
    LET returned(r) ==
            Query([op |-> "SelectWhere", name |-> tableName, col |-> columnName,
                   opr |-> op, value |-> value, err |-> r.err, rows |-> r.rows])
    IN  returned(SelectWhere(IF handle = "open" THEN file ELSE <<>>, tables, rowIndices,
                     tableName, columnName, op, value))

DoListTables ==
    Query([op |-> "ListTables", names |-> ListTables(tables)])

DoGetRowCount(tableName) ==
    LET returned(r) ==
            Query([op |-> "GetRowCount", name |-> tableName, err |-> r.err, count |-> r.count])
    IN  returned(GetRowCount(rowIndices, tableName))

DoGetTableSchema(tableName) ==
    Query(IF tableName \in DOMAIN tables
          THEN [op |-> "GetTableSchema", name |-> tableName, err |-> "ok",
                table |-> tables[tableName]]
          ELSE [op |-> "GetTableSchema", name |-> tableName, err |-> "TableNotFound"])

\* Close closes the file and leaves the Database as it is; it takes no
\* lock.  A second Close returns the error of os.File.Close.  The call
\* record keeps what the queries returned just before the file was closed.
Close ==
    /\ handle' = "closed"
    /\ res' = [op |-> "Close", err |-> IF handle = "open" THEN "ok" ELSE "Closed",
               closed |-> IF handle = "closed" /\ "closed" \in DOMAIN res THEN res.closed
                          ELSE View(file, tables, rowIndices)]
    /\ UNCHANGED <<dbvars, inserted>>

\* NewDatabase on the same file with the same page size, while the ReadAt
\* number env.failedRead of the call fails (0: none fails).  The caller has
\* closed the Database it had: the state is that of the new one, and stays
\* that of the closed one when NewDatabase returns an error.
OpenIn(env) ==
    LET opened(db) ==
            /\ res' = [op |-> "Open", err |-> db.err,
                       closed |-> IF "closed" \in DOMAIN res THEN res.closed
                                  ELSE View(file, tables, rowIndices)]
            /\ IF db.err = "ok" THEN
                    /\ handle' = "open"
                    /\ tables' = db.tables
                    /\ rowIndices' = db.rowIndices
                    /\ nextPageID' = db.nextPageID
                    /\ nextTableID' = db.nextTableID
               ELSE UNCHANGED <<handle, tables, rowIndices, nextPageID, nextTableID>>
    IN
    /\ handle = "closed"
    /\ UNCHANGED <<file, inserted>>
    /\ \E db \in NewDatabase(file, env) : opened(db)

\* NewDatabase while every ReadAt succeeds
Open == OpenIn([failedRead |-> 0])

(***************************************************************************)
(* Inputs of the model.                                                    *)
(***************************************************************************)
NameT == <<116>>
NameU == <<117>>
TableNames == {NameT, NameU}

ColI == <<105>>
ColN == <<110>>
ColA == <<97>>
ColS == <<115>>
ColB == <<98>>
ColZ == <<122>>

Column(name, type, notNull) == [Name |-> name, Type |-> type, NotNull |-> notNull]

\* (i INTEGER NOT NULL, n STRING)
ColsA == <<Column(ColI, TInteger, TRUE), Column(ColN, Tstring, FALSE)>>
\* (a INTEGER, s FLOAT, b BOOLEAN NOT NULL)
ColsB == <<Column(ColA, TInteger, FALSE), Column(ColS, Tfloat, FALSE), Column(ColB, Tbool, TRUE)>>

\* (name, columns, primary key) of the CreateTable calls
CreateInputs ==
    { <<NameT, ColsA, ColI>>, <<NameU, ColsB, <<>> >>,
      <<NameT, ColsB, ColI>>, <<NameU, ColsA, ColZ>> }

StrAB == <<97, 98>>

\* value maps the validation lets through for a table of ColsA or of ColsB
AcceptedRows ==
    { (ColI :> IntV("int64", 1)) @@ (ColN :> StrV(StrAB)),
      (ColI :> FloatV("float64", 6)) @@ (ColN :> Nil),
      (ColA :> IntV("int32", 30)) @@ (ColS :> FloatV("float64", 3)) @@ (ColB :> BoolV(TRUE)),
      (ColS :> IntV("int", 2)) @@ (ColB :> BoolV(FALSE)),
      (ColB :> Nil) }

\* value maps the validation stops for both schemas
RejectedRows ==
    { (ColI :> StrV(StrAB)),
      (ColI :> FloatV("float64", 3)),
      (ColI :> FloatV("float32", 4)),
      (ColI :> IntV("int", 1)) @@ (ColZ :> IntV("int", 1)) }

RowInputs == AcceptedRows \cup RejectedRows

(***************************************************************************)
(* Specification: one caller creating tables, inserting, closing and       *)
(* reopening the file.  The caller makes no call on a Database it has      *)
(* closed.                                                                 *)
(***************************************************************************)
TotalRows == Cardinality(UNION {rowIndices[n] : n \in DOMAIN rowIndices})

\* a call made while no other goroutine is in a call: its lock is taken and
\* released within the step
Alone == UNCHANGED <<mu, calls>>

Next ==
    \/ \E c \in CreateInputs : handle = "open" /\ Alone /\ CreateTable(c[1], c[2], c[3])
    \/ \E n \in TableNames, values \in RowInputs :
           handle = "open" /\ TotalRows < MaxRows /\ Alone /\ Insert(n, values)
    \/ \E n \in TableNames : handle = "open" /\ Alone /\ DoSelectAll(n)
    \/ handle = "open" /\ Alone /\ DoListTables
    \/ \E n \in TableNames : handle = "open" /\ Alone /\ DoGetRowCount(n)
    \/ handle = "open" /\ Alone /\ Close
    \/ Alone /\ Open

Spec == Init /\ [][Next]_vars

(***************************************************************************)
(* Specification of the query layer: one caller filling two tables and     *)
(* reading them back through every query entry point.                      *)
(***************************************************************************)
StrA == <<97>>

\* (table, value map) of the Insert calls; each map is valid for its table
QueryRows ==
    { <<NameT, (ColI :> IntV("int64", 1)) @@ (ColN :> StrV(StrAB))>>,
      <<NameT, (ColI :> FloatV("float64", 6)) @@ (ColN :> Nil)>>,
      <<NameU, (ColA :> IntV("int32", 30)) @@ (ColS :> FloatV("float64", 3))
               @@ (ColB :> BoolV(TRUE))>>,
      <<NameU, (ColS :> IntV("int", 2)) @@ (ColB :> BoolV(FALSE))>>,
      <<NameU, (ColA :> IntV("int64", 1)) @@ (ColB :> Nil)>> }

\* (name, columns, primary key) of the CreateTable calls
QueryTables == {<<NameT, ColsA, ColI>>, <<NameU, ColsB, <<>> >>}

\* (table, predicate) of the Select calls
SelectInputs ==
    {<<NameU, NilCond>>, <<NameT, ByID(1)>>, <<NameU, Where(ColA, "<", IntV("int", 2))>>}

\* (table, column, operator, value) of the SelectWhere calls
WhereInputs ==
    {<<NameU, ColA, op, IntV("int", 2)>> : op \in Operators \ {"LIKE"}}
    \cup
    { <<NameU, ColA, ">", IntV("int32", 2)>>,
      <<NameU, ColA, "!=", Nil>>,
      <<NameU, ColS, ">=", FloatV("float64", 3)>>,
      <<NameU, ColS, "<", FloatV("float32", 4)>>,
      <<NameT, ColN, "LIKE", StrV(StrA \o <<Percent>>)>>,
      <<NameT, ColN, "LIKE", Nil>>,
      <<NameT, ColZ, "=", IntV("int", 1)>>,
      <<NameT, ColI, "~", IntV("int", 1)>>,
      <<NameT, ColZ, "~", StrV(StrA)>>,
      <<NameU, ColA, "=", StrV(StrA)>>,
      <<NameU, ColA, "~", FloatV("float64", 3)>>,
      <<NameU, ColA, "~", FloatV("float32", 4)>> }

QNext ==
    \/ \E c \in QueryTables : Alone /\ CreateTable(c[1], c[2], c[3])
    \/ \E r \in QueryRows : TotalRows < MaxQueryRows /\ Alone /\ Insert(r[1], r[2])
    \* +Inf, a float64 without fractional part that is no int64, for column i
    \/ /\ TotalRows < MaxQueryRows
       /\ Alone
       /\ Insert(NameT, (ColI :> [kind |-> "float64", s |-> <<0, 0, 0, 0, 0, 0, 240, 127>>]))
    \/ \E q \in SelectInputs : Alone /\ DoSelect(q[1], q[2])
    \/ \E n \in TableNames : Alone /\ DoSelectAll(n)
    \/ \E id \in 0..(MaxQueryRows + 1) : Alone /\ DoSelectByID(NameU, id)
    \/ \E w \in WhereInputs : Alone /\ DoSelectWhere(w[1], w[2], w[3], w[4])

QuerySpec == Init /\ [][QNext]_vars

(***************************************************************************)
(* Specification of page filling: one caller inserting rows of every size  *)
(* around the capacity of a page, the largest ones too large for any page. *)
(* The caller does not recover from a panic: a call that panics ends the   *)
(* process, and the file keeps what the call had written.                  *)
(***************************************************************************)
\* Insert, or the end of the process when its body panics
InsertOrCrash(tableName, values) ==
    LET crashed(r) ==
            /\ file' = r.file
            /\ handle' = "closed"
            /\ tables' = EmptyMap
            /\ rowIndices' = EmptyMap
            /\ nextPageID' = 0
            /\ nextTableID' = LEBytes(1, 4)
            /\ res' = [op |-> "Insert", name |-> tableName, values |-> values,
                       err |-> r.err, rowID |-> 0,
                       closed |-> View(file, tables, rowIndices)]
            /\ UNCHANGED inserted
        returned(r, env) ==
            IF r.err = "panic" THEN crashed(r) ELSE InsertIn(Database, tableName, values, env)
        called(env) ==
            returned(insertRow(file, tables, rowIndices, nextPageID, tableName, values, env),
                     env)
    IN  /\ handle = "open"
        /\ \E build \in Builds : called([build |-> build, failedWrite |-> 0, failedRead |-> 0])

\* value maps for a table of ColsA whose record (2 + 1 + 8 + 2 + length of n
\* bytes, 11 without n) is small, fills an empty page up to the margin, past
\* the margin, to the last byte, and one byte beyond; and one whose string n
\* has 65537 bytes, a length that does not fit the 16-bit prefix
FillRows ==
    {(ColI :> IntV("int64", 1))}
    \cup {(ColI :> IntV("int", 3)) @@ (ColN :> StrV([k \in 1..65537 |-> 97]))}
    \cup {(ColI :> IntV("int", 2)) @@ (ColN :> StrV([k \in 1..(PageSize - d) |-> 97])) :
             d \in {HeaderSize + 13 + 4, HeaderSize + 13 + 3, HeaderSize + 13,
                    HeaderSize + 13 - 1}}

FillNext ==
    \/ handle = "open" /\ Alone /\ CreateTable(NameT, ColsA, ColI)
    \/ \E values \in FillRows : TotalRows < MaxRows /\ Alone /\ InsertOrCrash(NameT, values)
    \/ handle = "open" /\ Alone /\ Close
    \/ Alone /\ Open

FillSpec == Init /\ [][FillNext]_vars

(***************************************************************************)
(* Specification of the pure functions: each behaviour is one call of one  *)
(* function on arguments drawn from the sets below.                        *)
(***************************************************************************)
\* longest string handed to compareValues and matchLike
MaxStrLen == 3

\* the strings over the letters a and b of length at most n
Strings(n) == UNION {[1..k -> {97, 98}] : k \in 0..n}

\* operands of compareValues: nil, numbers of several kinds, booleans, strings
CompareOperands ==
    {Nil, IntV("int", 1), IntV("int64", 2), IntV("int32", 1), IntV("uint8", 2),
     FloatV("float64", 3), FloatV("float32", 3), BoolV(TRUE), BoolV(FALSE)}
    \cup {StrV(str) : str \in Strings(MaxStrLen)}

\* the calls: the function and its arguments
FuncCalls ==
    {[fn |-> "compareValues", a |-> a, b |-> b] : a, b \in CompareOperands}
    \cup
    \* matchLike on the patterns x, %x, x% and %x% for every literal x
    {[fn |-> "matchLike", str |-> str, pattern |-> pre \o x \o post] :
        str \in Strings(MaxStrLen), x \in Strings(MaxStrLen),
        pre \in {<<>>, <<Percent>>}, post \in {<<>>, <<Percent>>}}
    \cup
    \* serializeRow then deserializeRow on the rows validateRowData accepts
    \* for three schemas, and for the two schemas of an Integer and a Float
    \* column that bear the same name (CreateTable does not refuse them); a
    \* value of kind "absent" leaves the column out
    LET absent == [kind |-> "absent", s |-> <<>>]
        row(cols, vals) ==
            [name \in {cols[k].Name : k \in {j \in 1..Len(cols) : vals[j].kind # "absent"}} |->
                vals[CHOOSE k \in 1..Len(cols) : cols[k].Name = name]]
        \* +Inf and 2^63 are whole numbers that are no int64, -2^63 is one;
        \* the uint64 2^64 - 1 is above every int64
        ints == {absent, Nil, IntV("int64", 1), IntV("int32", 30), IntV("uint8", 2),
                 FloatV("float64", 6),
                 [kind |-> "float64", s |-> <<0, 0, 0, 0, 0, 0, 240, 127>>],
                 [kind |-> "float64", s |-> <<0, 0, 0, 0, 0, 0, 224, 67>>],
                 [kind |-> "float64", s |-> <<0, 0, 0, 0, 0, 0, 224, 195>>]}
        floats == {absent, Nil, FloatV("float64", 3), FloatV("float32", 4), IntV("int", 2),
                   [kind |-> "uint64", s |-> <<255, 255, 255, 255, 255, 255, 255, 255>>]}
        strs == {absent, Nil} \cup {StrV(str) : str \in Strings(MaxStrLen)}
        bools == {absent, Nil, BoolV(TRUE), BoolV(FALSE)}
        \* nine nullable Boolean columns a..i: the null bitmap takes two bytes
        wide == [k \in 1..9 |-> Column(<<96 + k>>, Tbool, FALSE)]
        twice(first, second) == <<Column(ColA, first, FALSE), Column(ColA, second, FALSE)>>
        rows == {[cols |-> ColsA, values |-> row(ColsA, <<x, y>>)] : x \in ints, y \in strs}
                \cup {[cols |-> ColsB, values |-> row(ColsB, <<x, y, z>>)] :
                          x \in ints, y \in floats, z \in bools}
                \cup {[cols |-> wide, values |-> row(wide, vals)] :
                          vals \in [1..9 -> {absent, BoolV(TRUE)}]}
                \cup {[cols |-> cols,
                       values |-> IF x.kind = "absent" THEN EmptyMap ELSE (ColA :> x)] :
                          cols \in {twice(TInteger, Tfloat), twice(Tfloat, TInteger)},
                          x \in ints \cup floats}
    IN  {[fn |-> "roundTrip", cols |-> r.cols, values |-> r.values] :
            r \in {q \in rows : validateRowData([Columns |-> q.cols], q.values) = "ok"}}
    \cup
    \* serializeTable then deserializeTable on table definitions of zero to
    \* five columns; those of five columns do not fit a page of PageSize
    \* bytes, nor does the one whose name has 65537 bytes, a length that does
    \* not fit the 16-bit prefix
    LET five == [k \in 1..5 |-> Column(<<96 + k>>, (k - 1) % 4, k % 2 = 0)]
    IN  {[fn |-> "tableRoundTrip",
          table |-> [ID |-> id, Name |-> name, Columns |-> cols, PK |-> pk,
                     FirstPageID |-> 0, LastPageID |-> 0]] :
            id \in {LEBytes(1, 4), LEBytes(2, 4), LEBytes(258, 4), <<255, 255, 255, 255>>},
            name \in {<<>>, NameT, StrAB},
            cols \in {<<>>, ColsA, ColsB, five}, pk \in {<<>>, ColI}}
        \cup {[fn |-> "tableRoundTrip",
               table |-> [ID |-> LEBytes(1, 4), Name |-> [k \in 1..65537 |-> 97], Columns |-> ColsA,
                          PK |-> ColI, FirstPageID |-> 0, LastPageID |-> 0]]}

\* no database is involved: the state is the pending call
FuncInit ==
    /\ file = <<>>
    /\ handle = "closed"
    /\ tables = EmptyMap
    /\ rowIndices = EmptyMap
    /\ nextPageID = 0
    /\ nextTableID = LEBytes(1, 4)
    /\ inserted = EmptyMap
    /\ mu = [writer |-> 0, readers |-> {}]
    /\ calls = [g \in Goroutines |-> [pc |-> "idle"]]
    /\ res \in {[op |-> "call", call |-> c] : c \in FuncCalls}

\* the call returns: res records the function, its arguments and its result
DoCompareValues ==
    /\ res.op = "call"
    /\ res.call.fn = "compareValues"
    /\ res' = [op |-> "compareValues", a |-> res.call.a, b |-> res.call.b,
               c |-> compareValues(res.call.a, res.call.b)]
    /\ UNCHANGED <<dbvars, handle, inserted, mu, calls>>

DoMatchLike ==
    /\ res.op = "call"
    /\ res.call.fn = "matchLike"
    /\ res' = [op |-> "matchLike", str |-> res.call.str, pattern |-> res.call.pattern,
               match |-> matchLike(res.call.str, res.call.pattern)]
    /\ UNCHANGED <<dbvars, handle, inserted, mu, calls>>

\* the row is encoded and the buffer that serializeRow returned is decoded
DoRoundTrip ==
    LET table == [Columns |-> res.call.cols]
        decoded(enc, build) ==
            [op |-> "roundTrip", cols |-> res.call.cols, values |-> res.call.values,
             build |-> build, enc |-> enc,
             dec |-> IF enc.err # "ok" THEN [err |-> enc.err, values |-> <<>>]
                     ELSE deserializeRow(enc.bytes, 0, Len(enc.bytes), table)]
    IN  /\ res.op = "call"
        /\ res.call.fn = "roundTrip"
        /\ \E build \in Builds :
               res' = decoded(serializeRow(res.call.values, table, build), build)
        /\ UNCHANGED <<dbvars, handle, inserted, mu, calls>>

\* the schema is written into the fresh table page that CreateTable prepares
\* and the page is read back
DoTableRoundTrip ==
    LET decoded(enc) ==
            [op |-> "tableRoundTrip", table |-> res.call.table, enc |-> enc,
             dec |-> IF enc.err # "ok" THEN [err |-> enc.err, table |-> NoTable]
                     ELSE deserializeTable(enc.data)]
    IN  /\ res.op = "call"
        /\ res.call.fn = "tableRoundTrip"
        /\ res' = decoded(serializeTable(res.call.table,
                                          NewPageData(PTTable, res.call.table.ID)))
        /\ UNCHANGED <<dbvars, handle, inserted, mu, calls>>

FuncNext ==
    \/ DoCompareValues
    \/ DoMatchLike
    \/ DoRoundTrip
    \/ DoTableRoundTrip

FuncSpec == FuncInit /\ [][FuncNext]_vars

(***************************************************************************)
(* Specification of concurrent callers: goroutines call into one Database  *)
(* and meet at its RWMutex.  A goroutine is "idle", then "wait" (it has    *)
(* called Lock or RLock), then "held" (it is in the locked section).       *)
(* Inside the section every ReadAt and WriteAt on the file is a step of    *)
(* its own, taken together with the code that follows it up to the next    *)
(* one; the step that releases the lock returns from the call.  One of the *)
(* callers may close the Database while calls are in progress: Close takes *)
(* no lock, so it can fall between two steps of a section, whose later     *)
(* ReadAt and WriteAt then fail.  No call is started on the closed         *)
(* Database.                                                               *)
(***************************************************************************)
\* LockMode with Insert taking the read lock
LockMode_InsertShared(fn) == IF fn = "CreateTable" THEN "Lock" ELSE "RLock"

\* the lock an entry point takes: db.mu.Lock() or db.mu.RLock().  SelectAll
\* and SelectByID take it in Select, SelectWhere in GetTableSchema and then
\* in Select.
LockMode(fn) == IF fn \in {"CreateTable", "Insert"} THEN "Lock" ELSE "RLock"

\* the calls the goroutines make, one of each entry point
ConcCalls ==
    { [fn |-> "CreateTable", name |-> NameT, cols |-> ColsA, pk |-> ColI],
      [fn |-> "Insert", name |-> NameT,
       values |-> (ColI :> IntV("int64", 1)) @@ (ColN :> StrV(StrAB))],
      [fn |-> "Select", name |-> NameT, cond |-> ByID(2)],
      [fn |-> "SelectAll", name |-> NameT],
      [fn |-> "SelectByID", name |-> NameT, id |-> 1],
      [fn |-> "SelectWhere", name |-> NameT, col |-> ColI, opr |-> "=",
       value |-> IntV("int", 1)],
      [fn |-> "ListTables"],
      [fn |-> "GetRowCount", name |-> NameT],
      [fn |-> "GetTableSchema", name |-> NameT] }

\* goroutine g enters the call c and reaches its first Lock or RLock.  The
\* call record holds the section the call is in (sect), the number of ReadAt
\* and WriteAt calls the section has made (pos), the rows and the error a
\* scan has collected, the Database as the section found it (pre) and the
\* row count of the call's table at the invocation (n0): the rows whose
\* Insert has returned.
Invoke(g, c) ==
    /\ calls[g].pc = "idle"
    /\ c.fn = "Insert" =>
           TotalRows + Cardinality({h \in Goroutines :
                                       calls[h].pc # "idle" /\ calls[h].call.fn = "Insert"})
           < MaxQueryRows
    /\ calls' = [calls EXCEPT ![g] =
                    [pc |-> "wait", call |-> c, sect |-> 1, pos |-> 0,
                     rows |-> <<>>, err |-> "ok", pre |-> <<>>,
                     n0 |-> IF c.fn # "ListTables" /\ c.name \in DOMAIN inserted
                            THEN Len(inserted[c.name]) ELSE 0]]
    /\ UNCHANGED <<dbvars, handle, res, inserted, mu>>

\* sync.RWMutex.Lock returns: no reader and no writer holds the lock
Lock(g) ==
    /\ calls[g].pc = "wait"
    /\ LockMode(calls[g].call.fn) = "Lock"
    /\ mu.writer = 0
    /\ mu.readers = {}
    /\ mu' = [mu EXCEPT !.writer = g]
    /\ calls' = [calls EXCEPT ![g].pc = "held", ![g].pre = Database]
    /\ UNCHANGED <<dbvars, handle, res, inserted>>

\* sync.RWMutex.RLock returns: no writer holds the lock and none is blocked in Lock
RLock(g) ==
    /\ calls[g].pc = "wait"
    /\ LockMode(calls[g].call.fn) = "RLock"
    /\ mu.writer = 0
    /\ \A h \in Goroutines :
           calls[h].pc = "wait" => LockMode(calls[h].call.fn) # "Lock"
    /\ mu' = [mu EXCEPT !.readers = @ \cup {g}]
    /\ calls' = [calls EXCEPT ![g].pc = "held"]
    /\ UNCHANGED <<dbvars, handle, res, inserted>>

\* what the locked section of the CreateTable or Insert c, entered on the
\* Database db, meets when the k-th of its ReadAt and WriteAt calls fails
\* (0, or a k beyond the last one: none fails).  An Insert into a table that
\* has a last page reads that page first; every other call on the file is a
\* WriteAt.
SectionEnv(c, db, k, build) ==
    LET reads == /\ c.fn = "Insert"
                 /\ c.name \in DOMAIN db.tables
                 /\ db.tables[c.name].LastPageID # 0
    IN  [build |-> build,
         failedRead |-> IF reads /\ k = 1 THEN 1 ELSE 0,
         failedWrite |-> IF reads /\ k > 0 THEN k - 1 ELSE k]

\* the Database the body of the CreateTable or Insert c leaves when it is
\* entered on db and the k-th of its ReadAt and WriteAt calls fails, with the
\* error it returns.  After a failed ReadAt or WriteAt the body returns and
\* changes nothing more, so this is also the Database as it is when that
\* call on the file is about to be made.
SectionBody(c, db, k, build) ==
    IF c.fn = "CreateTable"
    THEN createTable(db, c.name, c.cols, c.pk, SectionEnv(c, db, k, build).failedWrite)
    ELSE insertRow(db.file, db.tables, db.rowIndices, db.nextPageID, c.name, c.values,
                   SectionEnv(c, db, k, build))

\* one WriteAt or ReadAt of the locked section of CreateTable or Insert
\* succeeds on the open file, and the body runs on to its next call on the
\* file, or to its return
WriteStep(g) ==
    LET c == calls[g].call
        ran(r) ==
            /\ file' = r.file
            /\ tables' = r.tables
            /\ rowIndices' = r.rowIndices
            /\ nextPageID' = r.nextPageID
            /\ nextTableID' = IF c.fn = "CreateTable" THEN r.nextTableID ELSE nextTableID
    IN
    /\ calls[g].pc = "held"
    /\ mu.writer = g
    /\ handle = "open"
    /\ \E build \in Builds :
          \* the body has a further call on the file to make
          /\ SectionBody(c, calls[g].pre, calls[g].pos + 1, build).err = "IOError"
          /\ SectionBody(c, calls[g].pre, 0, build).err # "IOError"
          /\ ran(SectionBody(c, calls[g].pre, calls[g].pos + 2, build))
    /\ calls' = [calls EXCEPT ![g].pos = @ + 1]
    /\ UNCHANGED <<handle, res, inserted, mu>>

\* Unlock returning from the call without releasing the write lock
Unlock_LockKept(g) ==
    LET c == calls[g].call
        returns(env) ==
            IF c.fn = "CreateTable"
            THEN CreateTableIn(calls[g].pre, c.name, c.cols, c.pk, env.failedWrite)
            ELSE InsertIn(calls[g].pre, c.name, c.values, env)
    IN
    /\ calls[g].pc = "held"
    /\ mu.writer = g
    /\ \E build \in Builds :
          /\ handle = "open" =>
                ~(/\ SectionBody(c, calls[g].pre, calls[g].pos + 1, build).err = "IOError"
                  /\ SectionBody(c, calls[g].pre, 0, build).err # "IOError")
          /\ returns(SectionEnv(c, calls[g].pre,
                                IF handle = "open" THEN 0 ELSE calls[g].pos + 1, build))
    /\ mu' = mu
    /\ calls' = [calls EXCEPT ![g] = [pc |-> "idle"]]

\* the locked section of CreateTable or Insert comes to its end and the
\* deferred Unlock releases the lock; the call returns.  On the open file
\* the body has made every call on the file it makes; once Close has closed
\* the file, the next ReadAt or WriteAt of the body fails and the body
\* returns the error.
Unlock(g) ==
    LET c == calls[g].call
        returns(env) ==
            IF c.fn = "CreateTable"
            THEN CreateTableIn(calls[g].pre, c.name, c.cols, c.pk, env.failedWrite)
            ELSE InsertIn(calls[g].pre, c.name, c.values, env)
    IN
    /\ calls[g].pc = "held"
    /\ mu.writer = g
    /\ \E build \in Builds :
          /\ handle = "open" =>
                ~(/\ SectionBody(c, calls[g].pre, calls[g].pos + 1, build).err = "IOError"
                  /\ SectionBody(c, calls[g].pre, 0, build).err # "IOError")
          /\ returns(SectionEnv(c, calls[g].pre,
                                IF handle = "open" THEN 0 ELSE calls[g].pos + 1, build))
    /\ mu' = [mu EXCEPT !.writer = 0]
    /\ calls' = [calls EXCEPT ![g] = [pc |-> "idle"]]

\* the Ascend callback of Select runs for the next entry of the index: one
\* ReadAt, which fails once Close has closed the file (the callback then
\* skips the entry), and the decoding of the row
ScanStep(g) ==
    LET c == calls[g].call
        cond == IF c.fn = "Select" THEN c.cond
                ELSE IF c.fn = "SelectByID" THEN ByID(c.id)
                ELSE IF c.fn = "SelectWhere" THEN Where(c.col, c.opr, c.value)
                ELSE NilCond
        visited(one) ==
            calls' = [calls EXCEPT ![g].pos = @ + 1,
                                   ![g].err = one.err,
                                   ![g].rows = IF one.err = "ok" THEN @ \o one.rows
                                               ELSE <<>>]
    IN
    /\ calls[g].pc = "held"
    /\ g \in mu.readers
    /\ \/ c.fn \in {"Select", "SelectAll", "SelectByID"}
       \/ c.fn = "SelectWhere" /\ calls[g].sect = 2
    /\ c.name \in DOMAIN tables
    /\ c.name \in DOMAIN rowIndices
    /\ calls[g].err = "ok"
    /\ calls[g].pos < Cardinality(rowIndices[c.name])
    /\ visited(scanIndex(IF handle = "open" THEN file ELSE <<>>, tables[c.name],
                         <<Ascend(rowIndices[c.name])[calls[g].pos + 1]>>, 1, cond))
    /\ UNCHANGED <<dbvars, handle, res, inserted, mu>>

\* the locked section of a reading entry point comes to its end and the
\* deferred RUnlock releases the lock.  A scan has visited every entry of
\* the index, or met an error that ends it.  SelectWhere returns after
\* GetTableSchema when one of its checks fails, and goes on to Select
\* otherwise; every other call returns.
RUnlock(g) ==
    LET c == calls[g].call
        scans == \/ c.fn \in {"Select", "SelectAll", "SelectByID"}
                 \/ c.fn = "SelectWhere" /\ calls[g].sect = 2
        \* what Select returns
        selected ==
            IF c.name \notin DOMAIN tables THEN [err |-> "TableNotFound", rows |-> <<>>]
            ELSE IF c.name \notin DOMAIN rowIndices
                 THEN [err |-> "IndexNotFound", rows |-> <<>>]
            ELSE [err |-> calls[g].err, rows |-> calls[g].rows]
        \* SelectByID: rows[0] of the rows that Select returned
        first(r) ==
            IF r.err # "ok" THEN r
            ELSE IF Len(r.rows) = 0 THEN [err |-> "RowNotFound", rows |-> <<>>]
            ELSE [err |-> "ok", rows |-> <<r.rows[1]>>]
        returned(r) ==
            Query(IF c.fn = "Select"
                  THEN [op |-> "Select", name |-> c.name, cond |-> c.cond,
                        err |-> r.err, rows |-> r.rows]
                  ELSE IF c.fn = "SelectAll"
                  THEN [op |-> "SelectAll", name |-> c.name, err |-> r.err, rows |-> r.rows]
                  ELSE IF c.fn = "SelectByID"
                  THEN [op |-> "SelectByID", name |-> c.name, id |-> c.id,
                        err |-> r.err, rows |-> r.rows]
                  ELSE [op |-> "SelectWhere", name |-> c.name, col |-> c.col,
                        opr |-> c.opr, value |-> c.value, err |-> r.err, rows |-> r.rows])
        checked(err) ==
            IF err = "ok"
            THEN /\ calls' = [calls EXCEPT ![g].pc = "wait", ![g].sect = 2]
                 /\ UNCHANGED <<dbvars, handle, res, inserted>>
            ELSE /\ calls' = [calls EXCEPT ![g] = [pc |-> "idle"]]
                 /\ returned([err |-> err, rows |-> <<>>])
    IN
    /\ calls[g].pc = "held"
    /\ g \in mu.readers
    /\ mu' = [mu EXCEPT !.readers = @ \ {g}]
    /\ IF scans THEN
            /\ ~(/\ c.name \in DOMAIN tables
                 /\ c.name \in DOMAIN rowIndices
                 /\ calls[g].err = "ok"
                 /\ calls[g].pos < Cardinality(rowIndices[c.name]))
            /\ calls' = [calls EXCEPT ![g] = [pc |-> "idle"]]
            /\ returned(IF c.fn = "SelectByID" THEN first(selected) ELSE selected)
       ELSE IF c.fn = "SelectWhere" THEN
            checked(whereChecks(tables, c.name, c.col, c.opr, c.value))
       ELSE /\ calls' = [calls EXCEPT ![g] = [pc |-> "idle"]]
            /\ IF c.fn = "ListTables" THEN DoListTables
               ELSE IF c.fn = "GetRowCount" THEN DoGetRowCount(c.name)
               ELSE DoGetTableSchema(c.name)

ConcNext ==
    \/ \E g \in Goroutines, c \in ConcCalls : handle = "open" /\ Invoke(g, c)
    \* Close takes no lock: it closes the file beside the calls in progress,
    \* also between two ReadAt or WriteAt calls of a locked section
    \/ handle = "open" /\ Close /\ UNCHANGED <<mu, calls>>
    \/ \E g \in Goroutines : Lock(g)
    \/ \E g \in Goroutines : RLock(g)
    \/ \E g \in Goroutines : WriteStep(g)
    \/ \E g \in Goroutines : ScanStep(g)
    \/ \E g \in Goroutines : Unlock(g)
    \/ \E g \in Goroutines : RUnlock(g)

ConcSpec == Init /\ [][ConcNext]_vars

\* ConcSpec for a finite set of calls under a fair lock and a fair scheduler.
\* The callers make finitely many calls: from some point on no goroutine
\* leaves "idle".  The lock is granted: while some goroutine blocked in Lock
\* or RLock can get it, one of them does (weak fairness of the lock, which
\* every fair lock gives).  A goroutine inside a locked section goes on: one
\* of WriteStep(g), ScanStep(g), Unlock(g) and RUnlock(g) is enabled while
\* calls[g].pc = "held", a section makes finitely many calls on the file and
\* none of them blocks, so a goroutine that is scheduled is outside a locked
\* section again and again.
FairConcSpec ==
    /\ ConcSpec
    /\ <>[][\A g \in Goroutines : calls[g].pc = "idle" => calls'[g].pc = "idle"]_vars
    /\ WF_vars(\E g \in Goroutines : Lock(g) \/ RLock(g))
    /\ \A g \in Goroutines : []<>(calls[g].pc # "held")

(***************************************************************************)
(* Specification of failing calls: one caller creating and filling tables  *)
(* while WriteAt fails for a page of CreateTable or of Insert, or the       *)
(* table definition is too large for a page, querying while ReadAt fails   *)
(* for a part of the file, reopening the file while a ReadAt of the        *)
(* recovery fails, and calling into a Database after Close has closed its  *)
(* file.  The caller recovers from a panic and goes on using the Database. *)
(***************************************************************************)
\* a CreateTable that passes its checks and serializes its definition, on
\* an open file whose w-th WriteAt of the call (1: the table page, 2: the
\* data page) fails
CreateTableFails(tableName, columns, primaryKey, w) ==
    /\ handle = "open"
    /\ createChecks(tables, tableName, columns, primaryKey) = "ok"
    /\ U32Less(nextTableID, LEBytes(MaxFailedCreates + 1, 4))
    /\ serializeTable([ID |-> nextTableID, Name |-> tableName,
                       Columns |-> columns, PK |-> primaryKey,
                       FirstPageID |-> 0, LastPageID |-> 0],
                      NewPageData(PTTable, nextTableID)).err = "ok"
    /\ CreateTableIn(Database, tableName, columns, primaryKey, w)

\* the scanning call c made while ReadAt fails for every page id from k on:
\* for every page once the file is closed
DoScanUnreadable(c, k) ==
    LET f == SubSeq(file, 1, k)
        returned(r) ==
            /\ handle = "closed" => k = 0
            /\ Query([op |-> c.fn, name |-> c.name, readable |-> k,
                      err |-> r.err, rows |-> r.rows])
    IN  returned(IF c.fn = "Select" THEN Select(f, tables, rowIndices, c.name, c.cond)
                 ELSE IF c.fn = "SelectAll" THEN SelectAll(f, tables, rowIndices, c.name)
                 ELSE IF c.fn = "SelectByID"
                      THEN SelectByID(f, tables, rowIndices, c.name, c.id)
                 ELSE SelectWhere(f, tables, rowIndices, c.name, c.col, c.opr, c.value))

FaultNext ==
    \/ \E n \in TableNames : handle = "open" /\ Alone /\ CreateTable(n, ColsA, ColI)
    \/ \E w \in {1, 2} : Alone /\ CreateTableFails(NameT, ColsA, ColI, w)
    \/ /\ U32Less(nextTableID, LEBytes(MaxFailedCreates + 1, 4))
       /\ handle = "open"
       /\ Alone
       /\ CreateTable(NameT, [k \in 1..6 |-> Column(<<96 + k>>, (k - 1) % 4, FALSE)], <<>>)
    \* Close, on the closed Database too
    \/ Alone /\ Close
    \/ Alone /\ Open
    \* NewDatabase while one ReadAt of its two passes over the file fails
    \/ \E k \in 1..(2 * Len(file)) : Alone /\ OpenIn([failedRead |-> k])
    \/ \E r \in QueryRows :
           /\ r[1] = NameT
           /\ handle = "open"
           /\ TotalRows < MaxQueryRows
           /\ Alone
           /\ Insert(r[1], r[2])
    \* calls on the Database after Close has closed its file
    \/ /\ handle = "closed"
       /\ U32Less(nextTableID, LEBytes(MaxFailedCreates + 1, 4))
       /\ nextPageID = Len(file)
       /\ Alone
       /\ CreateTable(NameU, ColsA, ColI)
    \/ \E r \in QueryRows : r[1] = NameT /\ handle = "closed" /\ Alone /\ Insert(r[1], r[2])
    \/ handle = "closed" /\ Alone /\ DoListTables
    \/ handle = "closed" /\ Alone /\ DoGetRowCount(NameT)
    \* Insert while its w-th WriteAt fails, as long as no page id was lost to
    \* a failed call before
    \/ \E r \in QueryRows, w \in {1, 2}, build \in Builds :
           /\ r[1] = NameT
           /\ TotalRows < MaxQueryRows
           /\ U32Less(nextTableID, LEBytes(MaxFailedCreates + 1, 4))
           /\ nextPageID = Len(file)
           /\ Alone
           /\ handle = "open"
           /\ InsertIn(Database, r[1], r[2], [build |-> build, failedWrite |-> w, failedRead |-> 0])
    \/ \E c \in ConcCalls, k \in 0..Len(file) :
           /\ c.fn \in {"Select", "SelectAll", "SelectByID", "SelectWhere"}
           /\ Alone
           /\ DoScanUnreadable(c, k)

FaultSpec == Init /\ [][FaultNext]_vars

(***************************************************************************)
(* Specification of recovery: NewDatabase is called on files found on      *)
(* disk, put together from table pages, data pages and free pages in any   *)
(* order, and tables are created in the recovered Database.                *)
(***************************************************************************)
\* the file is any sequence of one to MaxFilePages pages, each the Table page
\* of table t (id 1), the Table page of a table u with the same id 1, the
\* Table page of u with the id 0xFFFFFFFE, an empty Data page of table 1, a
\* Data page of table 1 holding one row, an empty Data page of a table 2
\* that has no Table page, or a free page
RecoverInit ==
    LET t == [ID |-> LEBytes(1, 4), Name |-> NameT, Columns |-> ColsA, PK |-> ColI,
              FirstPageID |-> 0, LastPageID |-> 0]
        u(id) == [t EXCEPT !.ID = id, !.Name = NameU]
        pages == {serializeTable(t, NewPageData(PTTable, t.ID)).data,
                  serializeTable(u(t.ID), NewPageData(PTTable, t.ID)).data,
                  serializeTable(u(<<254, 255, 255, 255>>),
                                 NewPageData(PTTable, <<254, 255, 255, 255>>)).data,
                  NewPageData(PTData, t.ID),
                  addRowToPage(<<>>, 0, NewPageData(PTData, t.ID),
                               serializeRow((ColI :> IntV("int64", 1)), t, "amd64").bytes,
                               FALSE).file[1],
                  NewPageData(PTData, LEBytes(2, 4)),
                  Zeros(PageSize)}
    IN  /\ file \in UNION {[1..n -> pages] : n \in 1..MaxFilePages}
        /\ handle = "closed"
        /\ tables = EmptyMap
        /\ rowIndices = EmptyMap
        /\ nextPageID = 0
        /\ nextTableID = LEBytes(1, 4)
        /\ res = [op |-> "Close", err |-> "ok", closed |-> View(<<>>, EmptyMap, EmptyMap)]
        /\ inserted = EmptyMap
        /\ mu = [writer |-> 0, readers |-> {}]
        /\ calls = [g \in Goroutines |-> [pc |-> "idle"]]

RecoverNext ==
    \/ Alone /\ Open
    \/ handle = "open" /\ Alone /\ Close
    \/ \E n \in TableNames : handle = "open" /\ Alone /\ CreateTable(n, ColsA, ColI)

RecoverSpec == RecoverInit /\ [][RecoverNext]_vars

(***************************************************************************)
(* Properties.                                                             *)
(***************************************************************************)
ValidationErrors ==
    {"TableNotFound", "UnknownColumn", "MissingRequiredColumn", "TypeMismatch"}

\* C1: after CreateTable and Insert calls, Close and a reopen of the same
\* file with the same page size, recovery succeeds and ListTables,
\* GetRowCount and SelectAll return for every table exactly what they
\* returned immediately before Close (same names, same counts, same row
\* ids, values and order).
C1_ReopenPreservesView ==
    res.op = "Open" =>
        /\ res.err = "ok"
        /\ handle = "open"
        /\ View(file, tables, rowIndices) = res.closed

\* a reopen of a file holding two tables, one of them with a chain of two pages
C1_Witness ==
    /\ res.op = "Open"
    /\ res.err = "ok"
    /\ file # <<>>
    /\ Cardinality(DOMAIN tables) = 2
    /\ \E n \in DOMAIN tables :
           /\ tables[n].FirstPageID # tables[n].LastPageID
           /\ Cardinality(rowIndices[n]) >= 2

\* C2: the row ids indexed for a table are exactly 1..N with N the value
\* GetRowCount returns, N is the number of Inserts into the table that
\* succeeded so far, and the k-th successful Insert receives row id k.
C2_DenseRowIDs ==
    /\ \A n \in DOMAIN rowIndices :
           /\ {e.RowID : e \in rowIndices[n]} = 1..GetRowCount(rowIndices, n).count
           /\ GetRowCount(rowIndices, n).count = Len(inserted[n])
    /\ (res.op = "Insert" /\ res.err = "ok") => res.rowID = Len(inserted[res.name])

\* a second or later row has just been inserted into a table
C2_Witness ==
    /\ res.op = "Insert"
    /\ res.err = "ok"
    /\ res.rowID >= 2
    /\ GetRowCount(rowIndices, res.name).count = res.rowID

\* C3: an Insert rejected by validation (unknown table, unknown column,
\* missing not-null column, wrong-typed value) leaves the file, every
\* table's page chain ends, every row index and both counters as they were.
C3_RejectedInsertChangesNothing ==
    [][(res'.op = "Insert" /\ res'.err \in ValidationErrors)
          => UNCHANGED <<file, tables, rowIndices, nextPageID, nextTableID>>]_vars

\* an Insert into a table that already holds rows has just been rejected
C3_Witness ==
    /\ res.op = "Insert"
    /\ res.err \in {"UnknownColumn", "MissingRequiredColumn", "TypeMismatch"}
    /\ res.name \in DOMAIN tables
    /\ rowIndices[res.name] # {}

\* the conditions under which C4 requires an error, read off the call and the schema
KindAccepted(value, colType) ==
    \/ value.kind = "nil"
    \/ colType = TInteger /\ value.kind \in IntKinds
    \/ colType = TInteger /\ value.kind \in FloatKinds /\ FloatIsIntegral(value.s)
    \/ colType = Tfloat /\ value.kind \in IntKinds \cup FloatKinds
    \/ colType = Tstring /\ value.kind = "string"
    \/ colType = Tbool /\ value.kind = "bool"

InsertMustFail(tbls, tableName, values) ==
    \/ tableName \notin DOMAIN tbls
    \/ LET cols == tbls[tableName].Columns
       IN  \/ \E name \in DOMAIN values : \A i \in 1..Len(cols) : cols[i].Name # name
           \/ \E i \in 1..Len(cols) : cols[i].NotNull /\ cols[i].Name \notin DOMAIN values
           \/ \E i \in 1..Len(cols) :
                  /\ cols[i].Name \in DOMAIN values
                  /\ ~KindAccepted(values[cols[i].Name], cols[i].Type)

\* C4: Insert returns an error (TableNotFound, UnknownColumn,
\* MissingRequiredColumn or TypeMismatch) whenever the table is not
\* registered, a key of the map is no column, a not-null column has no entry,
\* or a non-null value's kind is not accepted for its column (a non-integral
\* float in an Integer column included); otherwise Insert succeeds.
C4_InsertFailsIffInvalid ==
    res.op = "Insert" =>
        IF InsertMustFail(tables, res.name, res.values)
        THEN res.err \in ValidationErrors
        ELSE res.err = "ok"

\* C5: CreateTable with a registered name fails with TableAlreadyExists and
\* changes nothing: schema, id, page chain, rows, file and both counters.
C5_DuplicateCreateChangesNothing ==
    [][(res'.op = "CreateTable" /\ res'.name \in DOMAIN tables)
          => /\ res'.err = "TableAlreadyExists"
             /\ UNCHANGED <<file, tables, rowIndices, nextPageID, nextTableID, inserted>>]_vars

\* a second CreateTable of a table that holds rows has just failed
C5_Witness ==
    /\ res.op = "CreateTable"
    /\ res.err = "TableAlreadyExists"
    /\ res.name \in DOMAIN tables
    /\ rowIndices[res.name] # {}

\* C6 as stated: CreateTable with a non-empty primary-key name that names no
\* supplied column fails with PrimaryKeyColumnNotFound before any state is
\* changed, and an empty primary-key name is never refused.
C6_AsStated ==
    [][res'.op = "CreateTable" =>
          LET cols  == res'.cols
              noCol == \A i \in 1..Len(cols) : cols[i].Name # res'.pk
          IN  /\ (res'.pk # <<>> /\ noCol) =>
                    /\ res'.err = "PrimaryKeyColumnNotFound"
                    /\ UNCHANGED <<file, tables, rowIndices, nextPageID, nextTableID>>
              /\ res'.pk = <<>> => res'.err # "PrimaryKeyColumnNotFound"]_vars

\* C6 (amended): CreateTable with a name that is not registered and a
\* non-empty primary-key name that names no supplied column fails with
\* PrimaryKeyColumnNotFound before any state is changed; with a registered
\* name the same call fails with TableAlreadyExists, the name being checked
\* first, and changes nothing either; an empty primary-key name is never
\* refused for want of a primary-key column.
C6_MissingPrimaryKeyColumn ==
    [][res'.op = "CreateTable" =>
          LET cols  == res'.cols
              noCol == \A i \in 1..Len(cols) : cols[i].Name # res'.pk
          IN  /\ (res'.pk # <<>> /\ noCol) =>
                    /\ res'.err = IF res'.name \in DOMAIN tables
                                  THEN "TableAlreadyExists"
                                  ELSE "PrimaryKeyColumnNotFound"
                    /\ UNCHANGED <<file, tables, rowIndices, nextPageID, nextTableID>>
              /\ res'.pk = <<>> => res'.err # "PrimaryKeyColumnNotFound"]_vars

\* a CreateTable naming a missing primary-key column has just failed in a
\* database that already holds a table
C6_Witness ==
    /\ res.op = "CreateTable"
    /\ res.err = "PrimaryKeyColumnNotFound"
    /\ res.name \notin DOMAIN tables
    /\ tables # EmptyMap

\* the rows a reader is due to find in table n: the accepted value maps in
\* insertion order, numbered from 1
ExpectedRows(n) == [k \in 1..Len(inserted[n]) |-> [RowID |-> k, Values |-> inserted[n][k]]]

\* C7: Select on an existing table returns exactly the table's rows for which
\* the predicate is absent or true, each with its row id and decoded values,
\* in strictly ascending row-id order; SelectAll returns all N rows, ids 1..N.
C7_SelectReturnsMatchingRowsInOrder ==
    (res.op \in {"Select", "SelectAll"} /\ res.name \in DOMAIN tables) =>
        LET cond == IF res.op = "Select" THEN res.cond ELSE NilCond
            due  == SelectSeq(ExpectedRows(res.name), LAMBDA row : holds(cond, row))
            n    == GetRowCount(rowIndices, res.name).count
        IN  /\ res.err = "ok"
            /\ res.rows = due
            /\ \A i, j \in 1..Len(res.rows) :
                   i < j => res.rows[i].RowID < res.rows[j].RowID
            /\ \A i \in 1..Len(res.rows) :
                   \E e \in rowIndices[res.name] : e.RowID = res.rows[i].RowID
            /\ res.op = "SelectAll" =>
                   [i \in 1..Len(res.rows) |-> res.rows[i].RowID] = [i \in 1..n |-> i]

\* a Select with a predicate has kept the second of two rows and dropped the first
C7_Witness ==
    /\ res.op = "Select"
    /\ res.err = "ok"
    /\ res.cond.type = "where"
    /\ res.name \in DOMAIN tables
    /\ Len(inserted[res.name]) = 2
    /\ Len(res.rows) = 1
    /\ res.rows[1].RowID = 2

\* C8: SelectByID(table, id) returns the row with row id id, the id-th row
\* inserted into the table, whenever 1 <= id <= GetRowCount(table), and fails
\* with RowNotFound exactly when id is 0 or greater than GetRowCount(table).
C8_SelectByIDReturnsIdthRow ==
    (res.op = "SelectByID" /\ res.name \in DOMAIN tables) =>
        LET n == GetRowCount(rowIndices, res.name).count
        IN  IF 1 <= res.id /\ res.id <= n
            THEN /\ res.err = "ok"
                 /\ res.rows = <<[RowID |-> res.id, Values |-> inserted[res.name][res.id]]>>
            ELSE res.err = "RowNotFound"

\* SelectByID has returned the second of two rows
C8_Witness ==
    /\ res.op = "SelectByID"
    /\ res.err = "ok"
    /\ res.id = 2
    /\ Len(res.rows) = 1

\* C9: for each of the nine operators and every comparison value, a row
\* whose value for the queried column is null or absent is never in the
\* result of SelectWhere.
C9_NullNeverMatches ==
    (res.op = "SelectWhere" /\ res.err = "ok") =>
        \A k \in 1..Len(inserted[res.name]) :
            res.col \notin DOMAIN inserted[res.name][k] =>
                \A i \in 1..Len(res.rows) : res.rows[i].RowID # k

\* a SelectWhere with an operator that nil would satisfy has returned a row
\* of a table that also holds a row with a null in the queried column
C9_Witness ==
    /\ res.op = "SelectWhere"
    /\ res.err = "ok"
    /\ res.opr \in {"<", "<=", "!=", "<>"}
    /\ res.value.kind # "nil"
    /\ Len(res.rows) = 1
    /\ \E k \in 1..Len(inserted[res.name]) : res.col \notin DOMAIN inserted[res.name][k]

\* the double a numeric value of any kind is coerced to
NumberOf(v) == IF v.kind \in FloatKinds THEN v.s ELSE IntegerToFloat(v)

\* x op y on doubles
Related(op, x, y) ==
    IF op = "=" THEN ~FloatLess(x, y) /\ ~FloatLess(y, x)
    ELSE IF op = ">" THEN FloatLess(y, x)
    ELSE IF op = ">=" THEN ~FloatLess(x, y)
    ELSE IF op = "<" THEN FloatLess(x, y)
    ELSE IF op = "<=" THEN ~FloatLess(y, x)
    ELSE FloatLess(x, y) \/ FloatLess(y, x)

\* C10: on an Integer or Float column, with a comparison value of any
\* integer or float kind that passed the type validation, SelectWhere with
\* =, >, >=, <, <=, != returns exactly the non-null rows whose stored number
\* stands in that relation to the value, whatever kind carries the value.
C10_NumericKindIndependent ==
    (/\ res.op = "SelectWhere"
     /\ res.err = "ok"
     /\ res.opr \in {"=", ">", ">=", "<", "<=", "!="}
     /\ res.value.kind \in IntKinds \cup FloatKinds) =>
        LET stored == inserted[res.name]
        IN  {res.rows[i].RowID : i \in 1..Len(res.rows)}
            = {k \in 1..Len(stored) :
                   /\ res.col \in DOMAIN stored[k]
                   /\ Related(res.opr, NumberOf(stored[k][res.col]), NumberOf(res.value))}

\* a is before b in the byte-wise lexicographic order of Go strings
LexLess(a, b) ==
    \/ Len(a) < Len(b) /\ \A i \in 1..Len(a) : a[i] = b[i]
    \/ \E k \in 1..Len(a) :
           /\ k <= Len(b)
           /\ a[k] < b[k]
           /\ \A i \in 1..(k - 1) : a[i] = b[i]

\* nil, number, string or bool
KindClass(v) ==
    IF v.kind \in IntKinds \cup FloatKinds THEN "number" ELSE v.kind

\* C11: compareValues(a, b) is 0 for two nulls, negative when only a is null,
\* positive when only b is null; two strings compare in lexicographic order;
\* two booleans compare false before true; two non-null values of
\* incompatible kinds (string, number, boolean, pairwise) compare as 0.
C11_CompareValuesContract ==
    res.op = "compareValues" =>
        LET a == res.a
            b == res.b
            c == res.c
        IN  /\ (a.kind = "nil" /\ b.kind = "nil") => c = 0
            /\ (a.kind = "nil" /\ b.kind # "nil") => c < 0
            /\ (a.kind # "nil" /\ b.kind = "nil") => c > 0
            /\ (a.kind = "string" /\ b.kind = "string") =>
                   /\ c < 0 <=> LexLess(a.s, b.s)
                   /\ c > 0 <=> LexLess(b.s, a.s)
                   /\ c = 0 <=> a.s = b.s
            /\ (a.kind = "bool" /\ b.kind = "bool") =>
                   /\ c < 0 <=> (a.s = <<0>> /\ b.s = <<1>>)
                   /\ c > 0 <=> (a.s = <<1>> /\ b.s = <<0>>)
            /\ (/\ a.kind # "nil"
                /\ b.kind # "nil"
                /\ KindClass(a) # KindClass(b)) => c = 0

\* compareValues has put a string before a longer string that it prefixes
C11_Witness ==
    /\ res.op = "compareValues"
    /\ res.a.kind = "string"
    /\ res.b.kind = "string"
    /\ Len(res.a.s) = 2
    /\ Len(res.b.s) = 3
    /\ SubSeq(res.b.s, 1, 2) = res.a.s
    /\ res.c < 0

\* C12: for every string s and every literal x without '%', the empty one
\* included: matchLike(s, x) iff s = x; matchLike(s, "%") always;
\* matchLike(s, "%"+x) iff s ends with x; matchLike(s, x+"%") iff s starts
\* with x; matchLike(s, "%"+x+"%") iff x occurs in s.
C12_MatchLikeGrammar ==
    res.op = "matchLike" =>
        LET any == Strings(MaxStrLen)
            str == res.str
        IN  \A x \in any :
               /\ res.pattern = x => (res.match <=> str = x)
               /\ res.pattern = <<Percent>> => res.match
               /\ res.pattern = <<Percent>> \o x =>
                      (res.match <=> \E u \in any : str = u \o x)
               /\ res.pattern = x \o <<Percent>> =>
                      (res.match <=> \E v \in any : str = x \o v)
               /\ res.pattern = <<Percent>> \o x \o <<Percent>> =>
                      (res.match <=> \E u, v \in any : str = u \o x \o v)

\* C13: SelectWhere returns TableNotFound for an unregistered table,
\* ColumnNotFound for a column that is not in the schema, TypeMismatch for a
\* value that is not accepted for the column's type, UnsupportedOperator for
\* an operator outside the nine (the first of these that applies, in this
\* order), and in each of these cases no rows.
C13_SelectWhereErrors ==
    res.op = "SelectWhere" =>
        LET noTable == res.name \notin DOMAIN tables
            cols    == IF noTable THEN <<>> ELSE tables[res.name].Columns
            noCol   == \A i \in 1..Len(cols) : cols[i].Name # res.col
            type    == cols[CHOOSE i \in 1..Len(cols) : cols[i].Name = res.col].Type
            due     == IF noTable THEN "TableNotFound"
                       ELSE IF noCol THEN "ColumnNotFound"
                       ELSE IF ~KindAccepted(res.value, type) THEN "TypeMismatch"
                       ELSE IF res.opr \notin Operators THEN "UnsupportedOperator"
                       ELSE "none"
        IN  /\ due # "none" => res.err = due
            /\ res.err \in {"TableNotFound", "ColumnNotFound", "TypeMismatch",
                             "UnsupportedOperator"} => res.rows = <<>>

\* C14: while a CreateTable or an Insert is inside its locked section, no
\* other call of any entry point is inside a locked section; only sections
\* of reading calls are ever open together.
C14_WritersExcludeAll ==
    \A g \in Goroutines :
        (calls[g].pc = "held" /\ calls[g].call.fn \in {"CreateTable", "Insert"}) =>
            \A h \in Goroutines \ {g} : calls[h].pc # "held"

\* an Insert is in its locked section of a table that holds a row while a
\* reading call waits at the lock
C14_Witness ==
    \E g, h \in Goroutines :
        /\ calls[g].pc = "held"
        /\ calls[g].call.fn = "Insert"
        /\ calls[h].pc = "wait"
        /\ calls[h].call.fn = "SelectAll"
        /\ TotalRows >= 1

\* C15: a successful Insert allocates a new Data page exactly when the table
\* has no last page or the last page's freeOffset + (row length + 2) + 4
\* exceeds the page size.  The new page takes the next page id, the previous
\* last page's next-page-id is set to it, it becomes LastPageID and receives
\* the row, and FirstPageID is kept.  Otherwise no page is allocated, the
\* chain ends are kept and the row goes into the last page.
C15_NewPageExactlyWhenFull ==
    [][(res'.op = "Insert" /\ res'.err = "ok") =>
          \E build \in Builds :
          LET t       == tables[res'.name]
              t2      == tables'[res'.name]
              rowLen  == Len(serializeRow(res'.values, t, build).bytes)
              hasLast == t.LastPageID # 0
              full    == GetU16(file[t.LastPageID + 1], 15) + (rowLen + 2) + 4 > PageSize
              entry   == CHOOSE e \in rowIndices'[res'.name] : e.RowID = res'.rowID
          IN  IF ~hasLast \/ full
              THEN /\ nextPageID' = nextPageID + 1
                   /\ Len(file') = nextPageID + 1
                   /\ file'[nextPageID + 1][1] = PTData
                   /\ hasLast =>
                          /\ Slice(file'[t.LastPageID + 1], 7, 15) = LEBytes(nextPageID, 8)
                          /\ t2.FirstPageID = t.FirstPageID
                   /\ t2.LastPageID = nextPageID
                   /\ entry.Ptr = [PageID |-> nextPageID, Offset |-> HeaderSize]
              ELSE /\ nextPageID' = nextPageID
                   /\ Len(file') = Len(file)
                   /\ t2.FirstPageID = t.FirstPageID
                   /\ t2.LastPageID = t.LastPageID
                   /\ entry.Ptr = [PageID |-> t.LastPageID,
                                   Offset |-> GetU16(file[t.LastPageID + 1], 15)]]_vars

\* an Insert has just put a row on a second page, behind a first page that
\* had room for the record but not for the record and the margin
C15_Witness ==
    /\ res.op = "Insert"
    /\ res.err = "ok"
    /\ LET t     == tables[res.name]
           first == file[t.FirstPageID + 1]
           last  == file[t.LastPageID + 1]
       IN  /\ t.FirstPageID # t.LastPageID
           /\ GetU16(last, 5) = 1
           /\ GetU16(first, 15) + (GetU16(last, 15) - HeaderSize) <= PageSize
           /\ \E e \in rowIndices[res.name] :
                  e.RowID = res.rowID /\ e.Ptr.PageID = t.LastPageID

\* the next-page-id of a page, -1 when it is no page id of the model's range
NextOf(page) ==
    IF IsZeroBytes(Slice(page, 9, 15)) THEN page[8] + 256 * page[9] ELSE -1

RECURSIVE ChainFrom(_, _, _)
\* the page ids met from page p on by following next-page-id, at most n of them
ChainFrom(f, p, n) ==
    IF n = 0 \/ p < 0 \/ p >= Len(f) THEN <<>>
    ELSE IF NextOf(f[p + 1]) = 0 THEN <<p>>
    ELSE <<p>> \o ChainFrom(f, NextOf(f[p + 1]), n - 1)

\* the Data pages of f whose header names the table id
OwnedPages(f, id) ==
    {p \in 0..(Len(f) - 1) : f[p + 1][1] = PTData /\ Slice(f[p + 1], 1, 5) = id}

\* C16: after any CreateTable and Insert calls, and after recovery of the
\* file they wrote, the next-page-id pointers from a table's FirstPageID
\* visit only Data pages owned by the table, each of them exactly once, and
\* end at LastPageID, whose next-page-id is 0; no other page of the table
\* has next-page-id 0.
C16_PageChain ==
    \A n \in DOMAIN tables :
        LET t     == tables[n]
            owned == OwnedPages(file, t.ID)
            chain == ChainFrom(file, t.FirstPageID, Len(file) + 1)
        IN  /\ {chain[i] : i \in 1..Len(chain)} = owned
            /\ Len(chain) = Cardinality(owned)
            /\ Len(chain) >= 1
            /\ chain[Len(chain)] = t.LastPageID
            /\ \A p \in owned : NextOf(file[p + 1]) = 0 <=> p = t.LastPageID

\* recovery has rebuilt two tables from a file in which the pages of a
\* two-page chain lie on both sides of the other table's pages
C16_Witness ==
    /\ res.op = "Open"
    /\ handle = "open"
    /\ \E n, m \in DOMAIN tables :
           /\ n # m
           /\ tables[n].FirstPageID < tables[m].FirstPageID
           /\ tables[m].LastPageID < tables[n].LastPageID
           /\ Len(ChainFrom(file, tables[n].FirstPageID, Len(file))) = 2

RECURSIVE RecordsFit(_, _, _)
\* the page holds left records from offset off on, each inside the used part
\* of the page, the last one ending at the free offset
RecordsFit(page, off, left) ==
    IF left = 0 THEN off = GetU16(page, 15)
    ELSE /\ off + 2 <= GetU16(page, 15)
         /\ off + 2 + GetU16(page, off) <= GetU16(page, 15)
         /\ RecordsFit(page, off + 2 + GetU16(page, off), left - 1)

\* C17: every Data page has 17 <= freeOffset <= page size, and every row
\* record (2-byte prefix and row bytes) lies inside one page between offset
\* 17 and the page's freeOffset, for rows of every size Insert accepts.
C17_RecordsInsidePages ==
    /\ \A p \in 1..Len(file) :
           file[p][1] = PTData =>
               /\ HeaderSize <= GetU16(file[p], 15)
               /\ GetU16(file[p], 15) <= PageSize
               /\ RecordsFit(file[p], HeaderSize, GetU16(file[p], 5))
    /\ \A n \in DOMAIN rowIndices :
           \A e \in rowIndices[n] :
               /\ e.Ptr.PageID < Len(file)
               /\ file[e.Ptr.PageID + 1][1] = PTData
               /\ HeaderSize <= e.Ptr.Offset
               /\ e.Ptr.Offset + 2 + GetU16(file[e.Ptr.PageID + 1], e.Ptr.Offset)
                      <= GetU16(file[e.Ptr.PageID + 1], 15)

\* an Insert has just filled a page to its last byte, behind a page that
\* holds two records
C17_Witness ==
    /\ res.op = "Insert"
    /\ res.err = "ok"
    /\ \E p, q \in 1..Len(file) :
           /\ file[p][1] = PTData
           /\ GetU16(file[p], 5) = 2
           /\ file[q][1] = PTData
           /\ GetU16(file[q], 5) = 1
           /\ GetU16(file[q], 15) = PageSize
           /\ \E e \in rowIndices[res.name] :
                  e.RowID = res.rowID /\ e.Ptr.PageID = q - 1

\* C18: within a session, a row that SelectAll returns with id i and values
\* v is returned with the same id and values by SelectAll after every
\* further CreateTable and Insert call, and GetRowCount of a table never
\* decreases.  Stated step by step: no step of an open database removes or
\* alters a row of what SelectAll returns, or lowers a row count.
C18_RowsOnlyGrow ==
    [][(handle = "open" /\ handle' = "open") =>
          \A n \in DOMAIN tables :
              LET before == SelectAll(file, tables, rowIndices, n)
                  after  == SelectAll(file', tables', rowIndices', n)
              IN  /\ n \in DOMAIN tables'
                  /\ after.err = before.err
                  /\ \A i \in 1..Len(before.rows) :
                         /\ i <= Len(after.rows)
                         /\ after.rows[i] = before.rows[i]
                  /\ GetRowCount(rowIndices', n).count
                         >= GetRowCount(rowIndices, n).count]_vars

\* SelectAll has returned two rows of a table in a database that holds a
\* second table with a row of its own
C18_Witness ==
    /\ res.op = "SelectAll"
    /\ res.err = "ok"
    /\ Len(res.rows) = 2
    /\ \E m \in DOMAIN tables : m # res.name /\ Len(inserted[m]) = 1

\* C19: when the read of a page fails while Select, SelectAll, SelectByID
\* or SelectWhere scans the index of a table, the call returns an error,
\* never a result without error from which the unreadable rows are missing.
C19_ReadFailureIsReported ==
    (/\ res.op \in {"Select", "SelectAll", "SelectByID", "SelectWhere"}
     /\ res.name \in DOMAIN tables
     /\ \E e \in rowIndices[res.name] : e.Ptr.PageID >= res.readable)
        => res.err # "ok"

\* C20 as stated: decoding the encoding of a valid row gives, for each
\* column that held a value, that value coerced to the type of that column
\* (int64 for Integer, float64 for Float), and leaves out every column that
\* was absent or null.
C20_AsStated ==
    res.op = "roundTrip" =>
        /\ res.enc.err = "ok"
        /\ res.dec.err = "ok"
        /\ \A k \in 1..Len(res.cols) :
              IF IsNullIn(res.values, res.cols[k].Name)
              THEN res.cols[k].Name \notin DOMAIN res.dec.values
              ELSE /\ res.cols[k].Name \in DOMAIN res.dec.values
                   /\ res.dec.values[res.cols[k].Name]
                      = StoredValue(res.cols[k].Type, res.values[res.cols[k].Name],
                                    res.build)
        /\ \A n \in DOMAIN res.dec.values : \E k \in 1..Len(res.cols) : res.cols[k].Name = n

\* C20 (amended): decoding the encoding of a valid row gives, for each
\* column name that held a value, that value coerced to the type of the last
\* column that bears the name (int64 for Integer, float64 for Float): to the
\* type of its column when no name is repeated; and it leaves out every
\* column that was absent or null.
C20_RowRoundTrip ==
    res.op = "roundTrip" =>
        /\ res.enc.err = "ok"
        /\ res.dec.err = "ok"
        /\ res.dec.values = StoredRow(res.cols, res.values, res.build)
        /\ \A k \in 1..Len(res.cols) :
              IsNullIn(res.values, res.cols[k].Name)
                  <=> res.cols[k].Name \notin DOMAIN res.dec.values

\* a row of the nine-column schema with a null in the first bitmap byte and a
\* value in the second, a row with a coerced number, or a row of a schema
\* that repeats a column name, decoded with the type of the last column of
\* the name, was round-tripped
C20_Witness ==
    /\ res.op = "roundTrip"
    /\ res.dec.err = "ok"
    /\ \/ /\ Len(res.cols) = 9
          /\ res.cols[1].Name \notin DOMAIN res.dec.values
          /\ res.cols[9].Name \in DOMAIN res.dec.values
       \/ \E n \in DOMAIN res.values :
             /\ res.values[n].kind \in {"float64", "int32"}
             /\ n \in DOMAIN res.dec.values
             /\ res.dec.values[n].kind = "int64"
       \/ /\ Len(res.cols) = 2
          /\ res.cols[1].Name = res.cols[2].Name
          /\ res.cols[2].Type = Tfloat
          /\ res.cols[1].Name \in DOMAIN res.dec.values
          /\ res.dec.values[res.cols[1].Name].kind = "float64"

\* the bytes a table definition takes in its page: the header, the name, the
\* column count, the primary-key name, and per column its name, type and flag
SchemaBytes(table) ==
    LET RECURSIVE colBytes(_)
        colBytes(i) == IF i > Len(table.Columns) THEN 0
                       ELSE 2 + Len(table.Columns[i].Name) + 2 + colBytes(i + 1)
    IN  HeaderSize + 2 + Len(table.Name) + 2 + 2 + Len(table.PK) + colBytes(1)

\* C21: for a table definition that fits in one page, deserializeTable of the
\* page written by serializeTable returns the same id, name, primary-key name
\* and the same columns (name, type, not-null flag) in the same order.
C21_TableRoundTrip ==
    (res.op = "tableRoundTrip" /\ SchemaBytes(res.table) <= PageSize) =>
        /\ res.enc.err = "ok"
        /\ res.dec.err = "ok"
        /\ res.dec.table.ID = res.table.ID
        /\ res.dec.table.Name = res.table.Name
        /\ res.dec.table.PK = res.table.PK
        /\ res.dec.table.Columns = res.table.Columns

\* a definition with three columns, a name, a primary key and an id above
\* 255 was written and read back
C21_Witness ==
    /\ res.op = "tableRoundTrip"
    /\ res.dec.err = "ok"
    /\ Len(res.table.Columns) = 3
    /\ res.table.Name # <<>>
    /\ res.table.PK # <<>>
    /\ res.table.ID[2] # 0

\* C22 as stated: table ids are unique in every state; a successfully
\* created table gets the id k when it is the k-th table of the database,
\* counting from 1, and that id is greater than the id of every table already
\* registered, the tables recovered from the file by a reopen included.
C22_AsStated ==
    [][/\ \A m, n \in DOMAIN tables' : m # n => tables'[m].ID # tables'[n].ID
       /\ (res'.op = "CreateTable" /\ res'.err = "ok" /\ res'.name \notin DOMAIN tables) =>
              /\ tables'[res'.name].ID = LEBytes(Cardinality(DOMAIN tables) + 1, 4)
              /\ \A n \in DOMAIN tables : U32Less(tables[n].ID, tables'[res'.name].ID)
       /\ (res'.op = "Open" /\ res'.err = "ok") =>
              \A n \in DOMAIN tables' : U32Less(tables'[n].ID, nextTableID')]_vars

\* What holds of the table ids when page writes may fail: they are unique in
\* every state; a successfully created table gets the value of the table-id
\* counter, which is at least k when it becomes the k-th table and greater
\* than the id of every table already registered, the tables recovered by a
\* reopen included; the counter then stands past the new id, and after a
\* reopen past every recovered id.
TableIDsIncrease ==
    [][/\ \A m, n \in DOMAIN tables' : m # n => tables'[m].ID # tables'[n].ID
       /\ (res'.op = "CreateTable" /\ res'.err = "ok" /\ res'.name \notin DOMAIN tables) =>
              /\ tables'[res'.name].ID = nextTableID
              /\ ~U32Less(tables'[res'.name].ID, LEBytes(Cardinality(DOMAIN tables) + 1, 4))
              /\ \A n \in DOMAIN tables : U32Less(tables[n].ID, tables'[res'.name].ID)
              /\ nextTableID' = U32Inc(nextTableID)
       /\ (res'.op = "Open" /\ res'.err = "ok") =>
              \A n \in DOMAIN tables' : U32Less(tables'[n].ID, nextTableID')]_vars

\* C23: after recovery, and in every state of an open database, the
\* next-page-id counter is greater than the id of every page in the file;
\* the page ids a CreateTable or Insert allocates lie past the end of the
\* file as it was, so no existing Table or Data page is overwritten by a
\* newly allocated page.
C23_NextPageIDPastFile ==
    [][/\ handle' = "open" => nextPageID' >= Len(file')
       /\ (handle = "open" /\ handle' = "open") =>
              /\ \A p \in nextPageID..(nextPageID' - 1) : p >= Len(file) /\ p < Len(file')
              /\ \A p \in 0..(Len(file) - 1) :
                    file[p + 1][1] \in {PTTable, PTData} => file'[p + 1][1] = file[p + 1][1]]_vars

\* a file of two tables and a second data page has just been recovered: the
\* counter stands at the number of pages
C23_Witness ==
    /\ res.op = "Open"
    /\ res.err = "ok"
    /\ Len(file) >= 5
    /\ nextPageID = Len(file)

\* page p (1-based) of the file is a Data page whose owner id is the id of no
\* Table page of the file
Orphan(p) ==
    /\ file[p][1] = PTData
    /\ \A q \in 1..Len(file) :
          file[q][1] = PTTable => Slice(file[q], 1, 5) # Slice(file[p], 1, 5)

\* C24: NewDatabase on a file that holds, at any position, a Data page whose
\* owning table id matches no Table page of the file returns an error and no
\* Database.
C24_OrphanDataPageFailsOpen ==
    (res.op = "Open" /\ \E p \in 1..Len(file) : Orphan(p)) =>
        /\ res.err \notin {"ok", "panic"}
        /\ handle = "closed"
        /\ tables = EmptyMap

\* NewDatabase has just refused a file whose last page is the orphan, behind
\* the Table page and a Data page of a known table
C24_Witness ==
    /\ res.op = "Open"
    /\ res.err = "CorruptData"
    /\ Len(file) = 3
    /\ file[1][1] = PTTable
    /\ file[2][1] = PTData
    /\ ~Orphan(2)
    /\ Orphan(3)

\* C25: an Insert whose row holds a String of 65536 bytes or more, a length
\* that does not fit the 16-bit prefix, returns an error and stores nothing:
\* the file and the index stay as they were.
C25_LongStringRejected ==
    [][(/\ res'.op = "Insert"
        /\ \E c \in DOMAIN res'.values :
               res'.values[c].kind = "string" /\ Len(res'.values[c].s) >= 65536)
       => /\ res'.err # "ok"
          /\ file' = file
          /\ rowIndices' = rowIndices]_vars

\* C26: CreateTable of a definition that does not fit in one page after the
\* 17-byte header returns an error (the call returns, it does not panic); no
\* table is registered and no page is written.
C26_OversizedDefinitionRejected ==
    [][(/\ res'.op = "CreateTable"
        /\ SchemaBytes([Name |-> res'.name, Columns |-> res'.cols, PK |-> res'.pk])
               > PageSize)
       => /\ res'.err \notin {"ok", "panic"}
          /\ tables' = tables
          /\ file' = file]_vars

\* C27: the type byte of a page of the file never changes, whatever CreateTable
\* and Insert calls follow (the file only grows), and a Table page is never
\* written again: all its bytes stay as CreateTable wrote them.
C27_PageTypeIsFinal ==
    [][/\ Len(file') >= Len(file)
       /\ \A p \in 1..Len(file) :
              /\ file'[p][1] = file[p][1]
              /\ file[p][1] = PTTable => file'[p] = file[p]]_vars

\* an Insert has just put a row on the second Data page of a table, in a file
\* that holds the Table pages of two tables
C27_Witness ==
    /\ res.op = "Insert"
    /\ res.err = "ok"
    /\ Cardinality({p \in 1..Len(file) : file[p][1] = PTTable}) = 2
    /\ \E n \in DOMAIN tables :
           /\ tables[n].LastPageID # tables[n].FirstPageID
           /\ GetU16(file[tables[n].LastPageID + 1], 5) >= 1

\* C28: a successful CreateTable takes exactly two consecutive page ids p and
\* p + 1 and writes nothing else: page p is a Table page, page p + 1 a Data
\* page owned by the new table's id with row count 0, next-page-id 0 and
\* freeOffset 17.  The table is registered with FirstPageID = LastPageID =
\* p + 1 and with an empty index, so that GetRowCount returns 0.
C28_CreateTableAllocatesTwoPages ==
    [][(res'.op = "CreateTable" /\ res'.err = "ok") =>
          LET p == nextPageID
              t == tables'[res'.name]
          IN  /\ nextPageID' = p + 2
              /\ Len(file') = p + 2
              /\ \A q \in 1..Len(file) : q <= p => file'[q] = file[q]
              /\ file'[p + 1][1] = PTTable
              /\ Slice(file'[p + 1], 1, 5) = t.ID
              /\ file'[p + 2][1] = PTData
              /\ Slice(file'[p + 2], 1, 5) = t.ID
              /\ GetU16(file'[p + 2], 5) = 0
              /\ Slice(file'[p + 2], 7, 15) = LEBytes(0, 8)
              /\ GetU16(file'[p + 2], 15) = 17
              /\ t.ID = nextTableID
              /\ t.FirstPageID = p + 1
              /\ t.LastPageID = p + 1
              /\ DOMAIN tables' = DOMAIN tables \cup {res'.name}
              /\ \A n \in DOMAIN tables : tables'[n] = tables[n]
              /\ GetRowCount(rowIndices', res'.name) = [err |-> "ok", count |-> 0]]_vars

\* a second table has just been created behind the pages of a first one that
\* holds rows
C28_Witness ==
    /\ res.op = "CreateTable"
    /\ res.err = "ok"
    /\ Cardinality(DOMAIN tables) = 2
    /\ nextPageID >= 4
    /\ tables[res.name].FirstPageID = nextPageID - 1
    /\ \E n \in DOMAIN tables : rowIndices[n] # {}

\* C29: a successful Insert whose row serializes to L bytes writes, at the
\* previous freeOffset f of the page that receives the row (17 on a new page),
\* the 2-byte prefix L followed by the L row bytes; the page's row count grows
\* by one and its freeOffset by L + 2, the records before f stay, and the
\* index gains the one entry (table id, row id) -> (page id, f).
C29_InsertAppendsRecord ==
    [][(res'.op = "Insert" /\ res'.err = "ok") =>
          \E build \in Builds :
          LET t      == tables[res'.name]
              pid    == tables'[res'.name].LastPageID
              row    == serializeRow(res'.values, t, build).bytes
              L      == Len(row)
              kept   == pid = t.LastPageID
              f      == IF kept THEN GetU16(file[pid + 1], 15) ELSE HeaderSize
              count  == IF kept THEN GetU16(file[pid + 1], 5) ELSE 0
              page   == file'[pid + 1]
          IN  /\ GetU16(page, f) = L
              /\ Slice(page, f + 2, f + 2 + L) = row
              /\ GetU16(page, 5) = count + 1
              /\ GetU16(page, 15) = f + L + 2
              /\ kept => Slice(page, HeaderSize, f) = Slice(file[pid + 1], HeaderSize, f)
              /\ rowIndices' =
                     [rowIndices EXCEPT ![res'.name] =
                         @ \cup {[TableID |-> t.ID, RowID |-> res'.rowID,
                                  Ptr |-> [PageID |-> pid, Offset |-> f]]}]
              /\ Cardinality(rowIndices'[res'.name])
                     = Cardinality(rowIndices[res'.name]) + 1]_vars

\* an Insert has just appended a record with a string to a page that held a
\* record already
C29_Witness ==
    /\ res.op = "Insert"
    /\ res.err = "ok"
    /\ \E e \in rowIndices[res.name] :
           /\ e.RowID = res.rowID
           /\ e.Ptr.Offset > HeaderSize
           /\ GetU16(file[e.Ptr.PageID + 1], e.Ptr.Offset) > 9
           /\ GetU16(file[e.Ptr.PageID + 1], 5) >= 2

\* C30: a Data page that is no longer the last page of its table (its
\* next-page-id is set, or its table is registered with another LastPageID)
\* is never written again: no later operation changes its row count, its
\* freeOffset, its next-page-id or its payload.
C30_LeftPagesAreFinal ==
    [][\A p \in 1..Len(file) :
          (/\ file[p][1] = PTData
           /\ \/ NextOf(file[p]) # 0
              \/ \E n \in DOMAIN tables :
                     /\ Slice(file[p], 1, 5) = tables[n].ID
                     /\ tables[n].LastPageID # p - 1)
          => /\ Len(file') >= p
             /\ file'[p] = file[p]]_vars

\* an Insert has just appended a record to the second page of a table whose
\* first page had room for that record too
C30_Witness ==
    /\ res.op = "Insert"
    /\ res.err = "ok"
    /\ LET t == tables[res.name]
       IN  /\ t.FirstPageID # t.LastPageID
           /\ NextOf(file[t.FirstPageID + 1]) = t.LastPageID
           /\ \E e \in rowIndices[res.name] :
                  /\ e.RowID = res.rowID
                  /\ e.Ptr.PageID = t.LastPageID
                  /\ e.Ptr.Offset > HeaderSize
                  /\ hasEnoughSpace(file[t.FirstPageID + 1],
                                    GetU16(file[t.LastPageID + 1], e.Ptr.Offset) + 2)

\* C31: in every state, also after a CreateTable that failed while writing
\* its pages, GetRowCount succeeds for exactly the names ListTables returns
\* (TableNotFound for every other name), and SelectAll of a listed table
\* does not return IndexNotFound.
C31_ListedIffCounted ==
    \A n \in TableNames :
        /\ GetRowCount(rowIndices, n).err = "ok" <=> n \in ListTables(tables)
        /\ GetRowCount(rowIndices, n).err \in {"ok", "TableNotFound"}
        /\ n \in ListTables(tables) =>
               SelectAll(file, tables, rowIndices, n).err # "IndexNotFound"

\* C32: every row returned by SelectAll has a value (not null) for every
\* column its table declares NOT NULL, whatever value maps the Inserts
\* supplied, an explicit null for such a column included.
C32_NotNullColumnsHaveValues ==
    \A n \in DOMAIN tables :
        LET cols == tables[n].Columns
            has(r) == r.err = "ok" =>
                          \A i \in 1..Len(r.rows) : \A c \in 1..Len(cols) :
                              cols[c].NotNull => cols[c].Name \in DOMAIN r.rows[i].Values
        IN  has(SelectAll(file, tables, rowIndices, n))

RECURSIVE RecordOffsets(_, _, _)
\* the offsets at which the next left records of the page begin, from off on
RecordOffsets(page, off, left) ==
    IF left = 0 THEN {}
    ELSE {off} \cup RecordOffsets(page, off + 2 + GetU16(page, off), left - 1)

\* C33: the index entries of a table and the row records on its Data pages
\* correspond one to one: every entry points to a page owned by the table at
\* an offset where a record begins, no two entries point to the same place,
\* every record has its entry, and the row count in the header of each Data
\* page is the number of entries pointing at the page, so that the row
\* counts of the table's pages sum to GetRowCount.
C33_IndexMatchesRecords ==
    \A n \in DOMAIN tables :
        LET idx   == rowIndices[n]
            owned == OwnedPages(file, tables[n].ID)
            at(p) == {e \in idx : e.Ptr.PageID = p}
            starts(p) == RecordOffsets(file[p + 1], HeaderSize, GetU16(file[p + 1], 5))
        IN  /\ \A e \in idx : e.Ptr.PageID \in owned
            /\ \A e1, e2 \in idx : e1.Ptr = e2.Ptr => e1 = e2
            /\ \A p \in owned :
                   /\ {e.Ptr.Offset : e \in at(p)} = starts(p)
                   /\ Cardinality(at(p)) = GetU16(file[p + 1], 5)
            /\ GetRowCount(rowIndices, n).count
                   = Cardinality(UNION {{<<p, o>> : o \in starts(p)} : p \in owned})

\* recovery has rebuilt the index of a table whose two records lie on two
\* pages, beside a second table that holds a row
C33_Witness ==
    /\ res.op = "Open"
    /\ res.err = "ok"
    /\ \E n, m \in DOMAIN tables :
           /\ n # m
           /\ rowIndices[m] # {}
           /\ Cardinality(rowIndices[n]) = 2
           /\ Cardinality({e.Ptr.PageID : e \in rowIndices[n]}) = 2

\* C34: an Insert into a table, and a CreateTable of a new table, leave every
\* other table as it was: its record with FirstPageID and LastPageID, what
\* GetRowCount and SelectAll return for it, and the bytes of every page it
\* owns.
C34_OtherTablesUntouched ==
    [][res'.op \in {"Insert", "CreateTable"} =>
          \A b \in DOMAIN tables \ {res'.name} :
              /\ b \in DOMAIN tables'
              /\ tables'[b] = tables[b]
              /\ GetRowCount(rowIndices', b) = GetRowCount(rowIndices, b)
              /\ SelectAll(file', tables', rowIndices', b)
                     = SelectAll(file, tables, rowIndices, b)
              /\ \A p \in OwnedPages(file, tables[b].ID) : file'[p + 1] = file[p + 1]
              /\ OwnedPages(file', tables[b].ID) = OwnedPages(file, tables[b].ID)]_vars

\* an Insert has just opened a second page for its table, in a file where
\* another table holds a row
C34_Witness ==
    /\ res.op = "Insert"
    /\ res.err = "ok"
    /\ tables[res.name].LastPageID = nextPageID - 1
    /\ tables[res.name].FirstPageID # tables[res.name].LastPageID
    /\ \E b \in DOMAIN tables \ {res.name} : rowIndices[b] # {}

\* C35: along the page chain of every table the page ids are strictly
\* increasing, and the index that recovery builds by scanning the file in
\* ascending page-id order is the index the open database holds: every
\* persisted row gets the row id it received when it was inserted, also when
\* the pages of several tables are interleaved in the file.
C35_RecoveryKeepsRowIDs ==
    handle = "open" =>
        LET same(db) ==
                /\ db.err = "ok"
                /\ DOMAIN db.rowIndices = DOMAIN rowIndices
                /\ \A n \in DOMAIN rowIndices : db.rowIndices[n] = rowIndices[n]
            rising(chain) == \A i \in 1..(Len(chain) - 1) : chain[i] < chain[i + 1]
        IN  /\ \A db \in NewDatabase(file, [failedRead |-> 0]) : same(db)
            /\ \A n \in DOMAIN tables :
                   rising(ChainFrom(file, tables[n].FirstPageID, Len(file) + 1))

\* an Insert has just put the second row of a table on a new page, behind
\* the pages of another table that holds a row and was created later
C35_Witness ==
    /\ res.op = "Insert"
    /\ res.err = "ok"
    /\ \E m \in DOMAIN tables :
           /\ tables[res.name].FirstPageID < tables[m].FirstPageID
           /\ tables[m].LastPageID < tables[res.name].LastPageID
           /\ rowIndices[m] # {}
           /\ \E e \in rowIndices[res.name] :
                  e.RowID = 2 /\ e.Ptr.PageID = tables[res.name].LastPageID

\* C36: in every file written through CreateTable and Insert no Data page has
\* page id 0: page 0 is a Table page.  So the 0 in LastPageID ("no last
\* page"), in FirstPageID during recovery ("not yet seen") and in the
\* next-page-id of a header ("no next page") never names a Data page: the
\* FirstPageID and LastPageID of a registered table, the page id of every
\* index entry and every non-zero next-page-id name Data pages other than 0.
C36_NoDataPageZero ==
    LET isData(p) == p > 0 /\ p < Len(file) /\ file[p + 1][1] = PTData
    IN  /\ Len(file) > 0 => file[1][1] = PTTable
        /\ \A n \in DOMAIN tables :
               /\ isData(tables[n].FirstPageID)
               /\ isData(tables[n].LastPageID)
               /\ \A e \in rowIndices[n] : isData(e.Ptr.PageID)
        /\ \A p \in 1..Len(file) :
               (file[p][1] = PTData /\ NextOf(file[p]) # 0) => isData(NextOf(file[p]))

\* an Insert has just opened a new page, at the end of a file of five pages
\* or more, for the table that was created first
C36_Witness ==
    /\ res.op = "Insert"
    /\ res.err = "ok"
    /\ tables[res.name].ID = LEBytes(1, 4)
    /\ tables[res.name].FirstPageID = 1
    /\ tables[res.name].LastPageID = Len(file) - 1
    /\ Len(file) >= 5

\* C37: an Insert that passed validation and then did not succeed (the row
\* is too large for an empty page, or a page could not be read or written)
\* leaves the table as it was: the file, and with it the next-page-id stored
\* in the table's last page, is unchanged, and so are LastPageID, the row
\* index and GetRowCount of a database that is still open.
C37_FailedInsertChangesNothing ==
    [][(/\ res'.op = "Insert"
        /\ res'.err # "ok"
        /\ res'.name \in DOMAIN tables
        /\ validateRowData(tables[res'.name], res'.values) = "ok")
       => /\ file' = file
          /\ handle' = "open" => tables' = tables /\ rowIndices' = rowIndices]_vars

\* the scanning call of goroutine g, which returns in this step, has seen the
\* table at one point: for some k between the row count of the table when
\* the call was invoked and the row count when it returns, the call returns
\* what the scan of exactly the rows 1..k gives, each row with the values it
\* was stored with: those of them that match the condition of the call, and
\* for SelectByID the first of them, or RowNotFound when there is none
ScanSawOnePoint(g) ==
    LET c    == calls[g].call
        cond == IF c.fn = "Select" THEN c.cond
                ELSE IF c.fn = "SelectByID" THEN ByID(c.id)
                ELSE IF c.fn = "SelectWhere" THEN Where(c.col, c.opr, c.value)
                ELSE NilCond
        seen(k) == SelectSeq([i \in 1..k |-> [RowID |-> i, Values |-> inserted'[c.name][i]]],
                             LAMBDA row : holds(cond, row))
    IN  /\ res'.op = c.fn
        /\ \E k \in calls[g].n0..Len(inserted'[c.name]) :
              /\ Cardinality(rowIndices'[c.name]) = Len(inserted'[c.name])
              /\ IF c.fn = "SelectByID"
                 THEN IF seen(k) = <<>> THEN res'.err = "RowNotFound"
                      ELSE res'.err = "ok" /\ res'.rows = <<seen(k)[1]>>
                 ELSE res'.err = "ok" /\ res'.rows = seen(k)

\* goroutine g returns in this step from a scanning call on a table that exists
ScanReturns(g) ==
    /\ calls[g].pc = "held"
    /\ calls'[g].pc = "idle"
    /\ calls[g].call.fn \in {"Select", "SelectAll", "SelectByID", "SelectWhere"}
    /\ calls[g].call.name \in DOMAIN tables

\* C38: a Select, SelectAll, SelectByID or SelectWhere running beside other
\* calls on the same table, Inserts among them, observes the table at a
\* single point between its invocation and its return: what it returns is
\* the result of scanning exactly the rows 1..k, for some k between the row
\* count when the call started and the row count when it returned, each row
\* complete, none missing and none partly inserted; also for SelectWhere,
\* which takes the read lock twice.
C38_ScanSeesOnePoint ==
    [][\A g \in Goroutines : ScanReturns(g) => ScanSawOnePoint(g)]_vars

\* the same for the scans that return while no caller has closed the
\* Database: the read lock keeps every Insert out of the scan
ScanOfOpenFileSeesOnePoint ==
    [][\A g \in Goroutines :
          (ScanReturns(g) /\ handle' = "open") => ScanSawOnePoint(g)]_vars

\* a SelectAll of a table of two rows returns the first row alone and no
\* error: the file was closed after the scan had read one row
ScanCutShort ==
    /\ res.op = "SelectAll"
    /\ res.err = "ok"
    /\ Len(res.rows) = 1
    /\ res.name \in DOMAIN rowIndices
    /\ Cardinality(rowIndices[res.name]) = 2
    /\ handle = "closed"

\* C39: under a fair lock every call of CreateTable, Insert, Select*,
\* ListTables, GetRowCount and GetTableSchema that was invoked eventually
\* returns, on success and on every error path, so no interleaving
\* deadlocks; and a goroutine that is not inside a call holds the lock in
\* neither mode, a goroutine waiting for the lock does not hold it either.
C39_EveryCallReturns ==
    /\ [](\A g \in Goroutines :
              calls[g].pc # "held" => mu.writer # g /\ g \notin mu.readers)
    /\ \A g \in Goroutines : (calls[g].pc # "idle") ~> (calls[g].pc = "idle")

\* SelectWhere waits for its second read lock while an Insert, which got the
\* lock after the first section, is inside its locked section
C39_Witness ==
    \E g, h \in Goroutines :
        /\ calls[g].pc = "wait"
        /\ calls[g].call.fn = "SelectWhere"
        /\ calls[g].sect = 2
        /\ calls[h].pc = "held"
        /\ calls[h].call.fn = "Insert"

====
